---- MODULE Spec2Model ----
(***************************************************************************)
(* A model of synfigapp::CanvasInterface (canvasinterface.cpp): the time   *)
(* cursor and its fan-out over the canvas tree, the grouped import         *)
(* pipelines, and the walker that collects the important value             *)
(* descriptors, and the nodes layer_set_defaults gives to list parameters.  *)
(* Six specifications share the module, one per part: SpecTime, SpecWalk, *)
(* SpecTxn, SpecList, SpecSeek and SpecWalkWith.                           *)
(***************************************************************************)
EXTENDS Integers, Sequences, FiniteSets, TLC

VARIABLES
    \* ---- the time cursor (CanvasInterface::set_time) ----
    cur_time,      \* cur_time_ of the interface of each canvas
    canvas_time,   \* Canvas::cur_time_, the time stored in each canvas
    stack,         \* the running set_time calls, innermost last
    call,          \* the top-level call in progress or just finished
    pre,           \* cur_time and canvas_time when that call was made
    asked,         \* interfaces set_time was invoked on during that call
    changed,       \* how often each interface assigned cur_time_ during it
    signals,       \* signal_time_changed emissions of each interface during it
    \* ---- the walker (find_important_value_descs) ----
    graph,         \* the value nodes, their links and the canvas parameters
    walk,          \* "idle", "running", "done" or "overflow"
    wstack,        \* the running calls of the walker, innermost last
    out,           \* the descriptors collected (the vector `out`)
    guid_set,      \* the identities seen (the set `guid_set`)
    classified,    \* how often each node got past the identity test
    result,        \* the integer the outermost call returned
    earlier,       \* what the call before the running one collected and returned
    \* ---- the document, its layers and the undo log ----
    layers,        \* the layer objects alive, by identity
    doc,           \* what the canvases hold: layer lists, groupings, links
    undo_stack,    \* the undo log of the instance, newest entry last
    last,          \* what the last call of an entry point did and returned
    \* ---- the list parameters of a new layer (layer_set_defaults) ----
    list_param     \* the list parameter last looked at and the node it got

timeVars == <<cur_time, canvas_time, stack, call, pre, asked, changed, signals>>

walkVars == <<graph, walk, wstack, out, guid_set, classified, result, earlier>>

txnVars == <<layers, doc, undo_stack, last>>

listVars == <<list_param>>

vars == <<timeVars, walkVars, txnVars, listVars>>

(***************************************************************************)
(* The document of Part 3, declared here for the initial states.           *)
(***************************************************************************)
\* Layer objects that may be alive at once.
MaxLayers == 4

LayerIds == 1 .. MaxLayers

NoLayer == 0

\* The slot of a layer object that does not exist.
FreeLayer ==
    [kind |-> "free", home |-> "", desc |-> "", filename |-> "", canvas |-> "",
     defaults |-> FALSE]

\* What a canvas holds besides its layers, by key: its name, id, description,
\* render description and edit mode, its metadata ("guide" is the key the
\* undo log covers, "note" any other key), the exported value node, the
\* converted parameter, a waypoint, and the values three value descriptors
\* address: one of a canvas of this tree, one of a canvas of another tree
\* and one with no canvas.
PropKeys ==
    {"mode", "rend_desc", "name", "description", "id", "guide", "note",
     "exported", "converted", "waypoint", "value@A", "value@X", "value@none"}

\* The canvases that hold layers: the interface's own canvas, an inline
\* canvas under it, and a canvas of another interface.
DocCanvases == {"own", "inl", "other"}

EmptyDoc ==
    [layers |-> [c \in DocCanvases |-> <<>>],
     inside |-> {}, conn |-> {}, external |-> {},
     props |-> [k \in PropKeys |-> ""]]

\* What is kept of a call of import_sequence: the files and the flag it was
\* given, the layers it kept and those it found equal to their predecessor,
\* the waypoints of the animated layer name, and the switch layer.
NoSeq ==
    [files |-> <<>>, remove_dups |-> FALSE, kept |-> {}, dups |-> {},
     wps |-> <<>>, switch |-> NoLayer]

\* The arguments of a call that the properties look at: the canvas of the
\* interface called, the canvas or key the call names, the value it gives,
\* what the action's is_ready() and perform() would answer, whether the
\* object the call needs exists, and the roots with an open instance.
NoArg ==
    [m |-> "", target |-> "", key |-> "", value |-> "", outcome |-> "",
     given |-> FALSE, open |-> {}, seq |-> NoSeq]

\* What is kept of a call of an entry point: what it returned or threw, what
\* it did on the way, and the document as the call found it.
NoOp ==
    [op |-> "none", ret |-> NoLayer, ok |-> TRUE, exc |-> "none",
     cancelled |-> FALSE, performed |-> 0, errors |-> 0, skipped |-> 0,
     file_failed |-> FALSE, log |-> <<>>,
     arg |-> NoArg, submitted |-> 0, unchecked |-> 0, unready |-> 0, hops |-> 0,
     by |-> {},
     pre |-> [doc |-> EmptyDoc, objs |-> [l \in LayerIds |-> FreeLayer], undo |-> <<>>]]

\* The document is empty and no entry point has been called.
TxnIdle ==
    /\ layers = [l \in LayerIds |-> FreeLayer]
    /\ doc = EmptyDoc
    /\ undo_stack = <<>>
    /\ last = NoOp

\* No parameter of a new layer has been looked at.
NoParam ==
    [getenv |-> {}, list |-> <<>>, created |-> <<>>, node |-> "", connected |-> FALSE]

ListIdle == list_param = NoParam

(***************************************************************************)
(* Part 1: the time cursor.                                                *)
(*                                                                         *)
(* Times are integers, in ticks of 1/TicksPerSecond second.  A canvas has  *)
(* a frame rate in frames per second; with TicksPerSecond = 2 the rates    *)
(* 0, 1 and 2 give no rounding, frames of two ticks and frames of one.     *)
(***************************************************************************)
MaxTime == 2

TicksPerSecond == 2

NoCanvas == "none"

\* The canvases of the session: the tree of root R (children A and B, and G
\* a child of A) and the one-canvas tree of root X, open in the same program.
Canvases == {"R", "A", "B", "G", "X"}

canvas_parent ==
    [c \in Canvases |->
        CASE c = "A" -> "R"
          [] c = "B" -> "R"
          [] c = "G" -> "A"
          [] OTHER   -> NoCanvas]

\* Canvas::children(): the list of the canvas's own child canvases.
children(c) ==
    CASE c = "R" -> <<"A", "B">>
      [] c = "A" -> <<"G">>
      [] OTHER   -> <<>>

\* RendDesc::get_frame_rate() of each canvas.
frame_rate ==
    [c \in Canvases |->
        CASE c = "R" -> 1
          [] c = "A" -> 1
          [] c = "B" -> 0
          [] c = "G" -> 2
          [] OTHER   -> 1]

\* RendDesc::get_frame_start(), as a time.
frame_start == [c \in Canvases |-> 0]

TimeVals == 0 .. MaxTime

RECURSIVE get_root(_)
\* Canvas::get_root(): walk the parent links up to the canvas without parent.
get_root(c) ==
    IF canvas_parent[c] = NoCanvas THEN c ELSE get_root(canvas_parent[c])

\* Time::round(fps): the nearest whole frame, a half frame rounding up.
Time_round(x, fps) ==
    LET twice == 2 * x * fps + TicksPerSecond
        frames == twice \div (2 * TicksPerSecond)
    IN  (frames * TicksPerSecond) \div fps

\* Time::is_equal: equality of two times.
Time_is_equal(a, b) == a = b

\* Instance::find_canvas_interface(canvas): the interface of a canvas. Every
\* canvas has exactly one, named after it.
find_canvas_interface(c) == c

\* get_canvas() of an interface.
get_canvas(m) == m

\* Canvas::set_time(t): store t in the canvas.
Canvas_set_time(times, c, t) == [times EXCEPT ![c] = t]

\* set_time without the rounding of lines 118-124.
set_time_quantize_raw(m, x) == x

\* Lines 118-124 of set_time: round x to the frame rate, unless it is zero.
set_time_quantize(m, x) ==
    IF frame_rate[get_canvas(m)] # 0
    THEN Time_round(x, frame_rate[get_canvas(m)])
    ELSE x

\* set_time with the test of line 125 never succeeding.
set_time_unchanged_never(cur, x) == FALSE

\* Line 125 of set_time: the rounded time is the cursor already.
set_time_unchanged(cur, x) == Time_is_equal(cur, x)

\* set_time with the fan-out calling this interface as well.
set_time_calls_self(m, interface) == TRUE

\* Line 133 of set_time: the interface of a child of the root is called
\* unless it is this interface.
set_time_calls(m, interface) == interface # m

\* set_time with the fan-out going over every canvas that is open.
set_time_targets_all(m) == <<"R", "A", "B", "G", "X">>

\* Line 130 of set_time: the canvases the fan-out iterates.
set_time_targets(m) == children(get_root(get_canvas(m)))

Frame(m, x) == [iface |-> m, x |-> x, pc |-> "entry", targets |-> <<>>, i |-> 1]

Top == stack[Len(stack)]

Pop == SubSeq(stack, 1, Len(stack) - 1)

NoCall == [iface |-> NoCanvas, x |-> 0, op |-> "none", arg |-> 0]

\* The walker is not running and its graph is the empty one.
\* No call of the walker has returned yet.
NoEarlier == [called |-> FALSE, out |-> <<>>, result |-> 0]

WalkIdle ==
    /\ graph = [kind |-> [n \in {} |-> "const"], links |-> [n \in {} |-> <<>>],
                exported |-> 0, paste2 |-> NoCanvas, paste3 |-> NoCanvas]
    /\ walk = "idle"
    /\ wstack = <<>>
    /\ out = <<>>
    /\ guid_set = {}
    /\ classified = [n \in {} |-> 0]
    /\ result = 0
    /\ earlier = NoEarlier

\* A step of the time cursor leaves the rest of the program alone.
TimeOnly == UNCHANGED <<walkVars, txnVars, listVars>>

InitTime ==
    /\ WalkIdle
    /\ TxnIdle
    /\ ListIdle
    /\ cur_time = [c \in Canvases |-> frame_start[c]]
    /\ canvas_time \in [Canvases -> TimeVals]
    /\ stack = <<>>
    /\ call = NoCall
    /\ pre = [cur |-> cur_time, doc |-> canvas_time]
    /\ asked = {}
    /\ changed = [c \in Canvases |-> 0]
    /\ signals = [c \in Canvases |-> 0]

\* A caller outside set_time invokes set_time(x) on interface m.
SetTimeCall ==
    /\ TimeOnly
    /\ stack = <<>>
    /\ \E m \in Canvases, x \in TimeVals :
        /\ stack' = <<Frame(m, x)>>
        /\ call' = [iface |-> m, x |-> x, op |-> "set_time", arg |-> x]
        /\ asked' = {m}
    /\ pre' = [cur |-> cur_time, doc |-> canvas_time]
    /\ changed' = [c \in Canvases |-> 0]
    /\ signals' = [c \in Canvases |-> 0]
    /\ UNCHANGED <<cur_time, canvas_time>>

\* set_time with signal_time_changed fired ahead of the test of line 125.
SetTimeReturnEqual_signalling ==
    /\ TimeOnly
    /\ stack # <<>>
    /\ Top.pc = "entry"
    /\ set_time_unchanged(cur_time[Top.iface], set_time_quantize(Top.iface, Top.x))
    /\ stack' = Pop
    /\ signals' = [signals EXCEPT ![Top.iface] = @ + 1]
    /\ UNCHANGED <<cur_time, canvas_time, call, pre, asked, changed>>

\* Lines 118-126: the rounded time equals the cursor, and the call returns.
SetTimeReturnEqual ==
    /\ TimeOnly
    /\ stack # <<>>
    /\ Top.pc = "entry"
    /\ set_time_unchanged(cur_time[Top.iface], set_time_quantize(Top.iface, Top.x))
    /\ stack' = Pop
    /\ UNCHANGED <<cur_time, canvas_time, call, pre, asked, changed, signals>>

\* Lines 118-130: the rounded time differs; the cursor and the canvas take it
\* and the fan-out over the root's children begins.
SetTimeAssign ==
    /\ TimeOnly
    /\ stack # <<>>
    /\ Top.pc = "entry"
    /\ LET m == Top.iface
           x == set_time_quantize(m, Top.x)
       IN  /\ ~set_time_unchanged(cur_time[m], x)
           /\ cur_time' = [cur_time EXCEPT ![m] = x]
           /\ canvas_time' = Canvas_set_time(canvas_time, get_canvas(m), x)
           /\ changed' = [changed EXCEPT ![m] = @ + 1]
           /\ stack' = [stack EXCEPT ![Len(stack)] =
                           [@ EXCEPT !.pc = "loop",
                                     !.targets = set_time_targets(m),
                                     !.i = 1]]
    /\ UNCHANGED <<call, pre, asked, signals>>

\* Lines 132-134: one iteration of the loop over the root's children.
SetTimeFanOut ==
    /\ TimeOnly
    /\ stack # <<>>
    /\ Top.pc = "loop"
    /\ Top.i <= Len(Top.targets)
    /\ LET m == Top.iface
           interface == find_canvas_interface(Top.targets[Top.i])
           next == [stack EXCEPT ![Len(stack)] = [@ EXCEPT !.i = @ + 1]]
       IN  IF set_time_calls(m, interface)
           THEN /\ stack' = Append(next,
                                Frame(interface, canvas_time[get_canvas(interface)]))
                /\ asked' = asked \cup {interface}
           ELSE /\ stack' = next
                /\ UNCHANGED asked
    /\ UNCHANGED <<cur_time, canvas_time, call, pre, changed, signals>>

\* Line 136: the loop is over, signal_time_changed fires and the call returns.
SetTimeSignal ==
    /\ TimeOnly
    /\ stack # <<>>
    /\ Top.pc = "loop"
    /\ Top.i > Len(Top.targets)
    /\ signals' = [signals EXCEPT ![Top.iface] = @ + 1]
    /\ stack' = Pop
    /\ UNCHANGED <<cur_time, canvas_time, call, pre, asked, changed>>

SetTimeStep ==
    \/ SetTimeReturnEqual
    \/ SetTimeAssign
    \/ SetTimeFanOut
    \/ SetTimeSignal

NextTime ==
    \/ SetTimeCall
    \/ SetTimeReturnEqual
    \/ SetTimeAssign
    \/ SetTimeFanOut
    \/ SetTimeSignal

SpecTime == InitTime /\ [][NextTime]_vars

\* set_time runs to its end once called: no other code runs in between.
SpecTimeFair == SpecTime /\ WF_vars(SetTimeStep)

(***************************************************************************)
(* Properties of the time cursor.                                          *)
(***************************************************************************)
\* The top-level call has returned.
Returned == stack = <<>> /\ call.iface # NoCanvas

SameTree(c, d) == get_root(c) = get_root(d)

Abs(n) == IF n < 0 THEN -n ELSE n

\* C4: every top-level set_time call terminates: a running call always
\* reaches its return, and on the way no interface assigns its cursor more
\* than once.
C4_SetTimeTerminates ==
    /\ [](\A c \in Canvases : changed[c] <= 1)
    /\ ((stack # <<>>) ~> (stack = <<>>))

\* A top-level call that went three calls deep (an interface, a sibling that
\* changed, and the call back) has returned.
C4_Witness ==
    /\ Returned
    /\ Cardinality({c \in Canvases : changed[c] = 1}) >= 2
    /\ call.iface \in asked \ {"R"}
    /\ Cardinality(asked) = 2

\* C5, as claimed: while a set_time call on an interface is in progress,
\* set_time is never invoked on that interface again, directly or through
\* another interface's fan-out.
C5_NeverReinvoked ==
    \A i, j \in 1 .. Len(stack) :
        i # j => stack[i].iface # stack[j].iface

\* C5, amended: a set_time call never invokes set_time on its own interface
\* directly; an invocation that reaches an interface whose call is still in
\* progress comes from another interface's fan-out and is about to return at
\* the equality test, having changed nothing.
C5_ReinvokedOnlyAsNoOp ==
    /\ \A i \in 1 .. Len(stack) - 1 : stack[i + 1].iface # stack[i].iface
    /\ \A i, j \in 1 .. Len(stack) :
        (i < j /\ stack[i].iface = stack[j].iface) =>
            /\ j = Len(stack)
            /\ stack[j].pc = "entry"
            /\ Time_is_equal(cur_time[stack[j].iface],
                             set_time_quantize(stack[j].iface, stack[j].x))

\* set_time is running on an interface whose earlier call has not returned.
C5_Witness ==
    \E i, j \in 1 .. Len(stack) : i < j /\ stack[i].iface = stack[j].iface

\* C6, as claimed: when a set_time call that changed the cursor has returned,
\* every other canvas of the same root tree, the root and the nested ones
\* included, had its interface asked, and its cursor is the rounded time its
\* canvas stores.
C6_AllOthersSynced ==
    (Returned /\ changed[call.iface] > 0) =>
        \A c \in Canvases \ {call.iface} :
            SameTree(c, call.iface) =>
                /\ find_canvas_interface(c) \in asked
                /\ cur_time[c] = set_time_quantize(c, canvas_time[c])

\* C7: a set_time call on an interface of one root tree leaves the cursor and
\* the stored time of every canvas of another tree as they were, invokes
\* set_time on none of their interfaces and has none of them signal.
C7_OtherTreesUntouched ==
    call.iface # NoCanvas =>
        \A c \in Canvases :
            ~SameTree(c, call.iface) =>
                /\ cur_time[c] = pre.cur[c]
                /\ canvas_time[c] = pre.doc[c]
                /\ signals[c] = 0
                /\ changed[c] = 0
                /\ c \notin asked

\* A call in the tree of R changed cursors while the canvas of the other tree
\* stores a time its interface has not adopted.
C7_Witness ==
    /\ Returned
    /\ call.iface = "A"
    /\ changed["A"] = 1 /\ changed["B"] = 1
    /\ cur_time["X"] # set_time_quantize("X", canvas_time["X"])

\* C8: once the top-level call has returned, every interface has signalled
\* exactly as often as it changed its cursor, at most once; the called one
\* signalled once if the rounded time differed from its cursor and never if it
\* did not, and then no cursor and no stored time has changed and no other
\* interface was called.
C8_SignalOncePerChange ==
    Returned =>
        LET m == call.iface
            same == Time_is_equal(pre.cur[m], set_time_quantize(m, call.x))
        IN  /\ \A c \in Canvases : signals[c] = changed[c] /\ changed[c] <= 1
            /\ signals[m] = IF same THEN 0 ELSE 1
            /\ same => /\ cur_time = pre.cur
                       /\ canvas_time = pre.doc
                       /\ asked = {m}
                       /\ \A c \in Canvases : signals[c] = 0

\* A call whose time rounds to the cursor has returned, the argument itself
\* being another time.
C8_Witness ==
    /\ Returned
    /\ signals[call.iface] = 0
    /\ call.x # pre.cur[call.iface]

\* C9: after set_time(x) the cursor is a whole frame and no other frame is
\* nearer to x; with a frame rate of zero it is x itself; and a call whose x
\* lies nearer to the frame of the cursor than to any other changes nothing.
C9_RoundsToNearestFrame ==
    Returned =>
        LET m == call.iface
            fps == frame_rate[get_canvas(m)]
        IN  IF fps = 0
            THEN cur_time[m] = call.x
            ELSE /\ (cur_time[m] * fps) % TicksPerSecond = 0
                 /\ 2 * fps * Abs(cur_time[m] - call.x) <= TicksPerSecond
                 /\ 2 * fps * Abs(pre.cur[m] - call.x) < TicksPerSecond =>
                        /\ cur_time = pre.cur
                        /\ canvas_time = pre.doc

\* A call has moved the cursor to a frame that is not the time it was given.
C9_Witness ==
    /\ Returned
    /\ frame_rate[call.iface] # 0
    /\ changed[call.iface] = 1
    /\ cur_time[call.iface] # call.x

(***************************************************************************)
(* Part 2: find_important_value_descs and _process_value_desc.             *)
(*                                                                         *)
(* The document walked is canvas D with the layers L1 (dynamic parameters  *)
(* p and q) and L2 (a paste layer whose canvas parameter is graph.paste2); *)
(* the inline canvas K holds layer L3 (dynamic parameter p, and a canvas   *)
(* parameter graph.paste3, which may be K itself); E is a canvas that is   *)
(* not inline.  The value nodes are 1 .. NumNodes.                         *)
(***************************************************************************)
NumNodes == 2

Nodes == 1 .. NumNodes

\* The depth of calls the program's stack holds.
MaxDepth == NumNodes + 6

NoValue == "novalue"

NodeKinds == {"const", "animated", "linkable", "dynamic_list"}

\* A node with the links it may have: none unless it is linkable, else one.
NodeShapes ==
    {[kind |-> k, links |-> <<>>] : k \in {"const", "animated"}}
        \cup {[kind |-> k, links |-> <<t>>] :
                 k \in {"linkable", "dynamic_list"}, t \in Nodes}

Graphs ==
    {[kind |-> [n \in Nodes |-> sh[n].kind],
      links |-> [n \in Nodes |-> sh[n].links],
      exported |-> e, paste2 |-> p2, paste3 |-> p3] :
        sh \in [Nodes -> NodeShapes],
        e \in {0} \cup Nodes,
        p2 \in {"K", "E", NoCanvas},
        p3 \in {NoValue, "K"}}

\* Canvas::is_inline().
is_inline(c) == c \in {"K", "inl"}

\* ValueNode::is_exported(): the node has an id in the root canvas.
is_exported(n) == n = graph.exported

\* Canvas::value_node_list(): the exported nodes of the canvas.
value_node_list(c) ==
    IF c = "D" /\ graph.exported # 0 THEN <<graph.exported>> ELSE <<>>

\* Canvas::get_independent_context(): the layers of the canvas, in order.
canvas_layers(c) ==
    CASE c = "D" -> <<"L1", "L2">>
      [] c = "K" -> <<"L3">>
      [] OTHER   -> <<>>

\* Layer::dynamic_param_list(): parameter names with their value nodes.
dynamic_param_list(layer) ==
    CASE layer = "L1" -> <<[name |-> "p", node |-> 1], [name |-> "q", node |-> 2]>>
      [] layer = "L3" -> <<[name |-> "p", node |-> NumNodes]>>
      [] OTHER        -> <<>>

\* Layer::get_param("canvas"): NoValue when the layer has no such parameter.
layer_canvas_param(layer) ==
    CASE layer = "L2" -> graph.paste2
      [] layer = "L3" -> graph.paste3
      [] OTHER        -> NoValue

\* LinkableValueNode::Handle::cast_dynamic succeeds.
is_linkable(n) == graph.kind[n] \in {"linkable", "dynamic_list"}

\* The three ValueDesc constructors the walker uses.
ValueDesc_canvas(c, n) ==
    [t |-> "canvas", canvas |-> c, layer |-> "", param |-> "", node |-> n, index |-> 0]

ValueDesc_layer(layer, param) ==
    [t |-> "layer", canvas |-> NoCanvas, layer |-> layer, param |-> param,
     node |-> 0, index |-> 0]

ValueDesc_link(n, i) ==
    [t |-> "link", canvas |-> NoCanvas, layer |-> "", param |-> "", node |-> n,
     index |-> i]

NoDesc == ValueDesc_layer("", "")

\* ValueDesc::get_value_type() == type_canvas.
desc_is_canvas(d) == d.t = "layer" /\ d.param = "canvas"

\* ValueDesc::is_value_node().
desc_is_value_node(d) ==
    \/ d.t \in {"canvas", "link"}
    \/ /\ d.t = "layer"
       /\ \E k \in 1 .. Len(dynamic_param_list(d.layer)) :
            dynamic_param_list(d.layer)[k].name = d.param

\* ValueDesc::get_value_node().
desc_value_node(d) ==
    CASE d.t = "canvas" -> d.node
      [] d.t = "link"   -> graph.links[d.node][d.index]
      [] OTHER ->
            LET dl == dynamic_param_list(d.layer)
                k == CHOOSE k \in 1 .. Len(dl) : dl[k].name = d.param
            IN  dl[k].node

\* _process_value_desc without the test of line 1318.
guid_seen_never(set, n) == FALSE

\* Line 1318: guid_set.count(value_node->get_guid()).
guid_seen(set, n) == n \in set

FindFrame(c) ==
    [fn |-> "find", canvas |-> c, desc |-> NoDesc, pc |-> "exported",
     i |-> 1, j |-> 1, ret |-> 0]

ProcessFrame(d) ==
    [fn |-> "process", canvas |-> NoCanvas, desc |-> d, pc |-> "start",
     i |-> 1, j |-> 1, ret |-> 0]

WTop == wstack[Len(wstack)]

\* The stack with its innermost call changed to f.
WithTop(f) == [wstack EXCEPT ![Len(wstack)] = f]

\* A step of the walker leaves the rest of the program alone.
WalkOnly == UNCHANGED <<timeVars, txnVars, listVars>>

\* The innermost call is left as f and calls g.
WalkPush(f, g) ==
    IF Len(wstack) >= MaxDepth
    THEN /\ walk' = "overflow"
         /\ UNCHANGED wstack
    ELSE /\ wstack' = Append(WithTop(f), g)
         /\ UNCHANGED walk

\* The innermost call returns r, which its caller adds to its own count.
WalkReturn(r) ==
    IF Len(wstack) = 1
    THEN /\ wstack' = <<>>
         /\ walk' = "done"
         /\ result' = r
    ELSE /\ wstack' = [SubSeq(wstack, 1, Len(wstack) - 1)
                          EXCEPT ![Len(wstack) - 1].ret = @ + r]
         /\ UNCHANGED <<walk, result>>

Running(fn, pc) ==
    /\ walk = "running"
    /\ WTop.fn = fn
    /\ WTop.pc = pc

\* No set_time call is running and every cursor is where its interface was
\* constructed.
TimeIdle ==
    /\ cur_time = [c \in Canvases |-> frame_start[c]]
    /\ canvas_time = [c \in Canvases |-> 0]
    /\ stack = <<>>
    /\ call = NoCall
    /\ pre = [cur |-> cur_time, doc |-> canvas_time]
    /\ asked = {}
    /\ changed = [c \in Canvases |-> 0]
    /\ signals = [c \in Canvases |-> 0]

InitWalk ==
    /\ TimeIdle
    /\ TxnIdle
    /\ ListIdle
    /\ graph \in Graphs
    /\ walk = "idle"
    /\ wstack = <<>>
    /\ out = <<>>
    /\ guid_set = {}
    /\ classified = [n \in Nodes |-> 0]
    /\ result = 0
    /\ earlier = NoEarlier

\* find_important_value_descs(out) going on with the identity set of the
\* call before.
fresh_guid_set_kept(set) == set

\* Line 1387: the identity set of a call, `synfig::GUIDSet tmp`.
fresh_guid_set(set) == {}

\* Lines 1384-1389: find_important_value_descs(out) on the interface of D,
\* with a fresh identity set.
WalkCall ==
    /\ WalkOnly
    /\ walk = "idle"
    /\ walk' = "running"
    /\ wstack' = <<FindFrame("D")>>
    /\ out' = <<>>
    /\ guid_set' = fresh_guid_set(guid_set)
    /\ UNCHANGED <<graph, earlier, classified, result>>

\* Lines 1384-1389 once more: the caller, having taken the vector and the
\* count of the first call, calls again with an empty vector.
WalkCallAgain ==
    /\ WalkOnly
    /\ walk = "done"
    /\ earlier = NoEarlier
    /\ earlier' = [called |-> TRUE, out |-> out, result |-> result]
    /\ walk' = "running"
    /\ wstack' = <<FindFrame("D")>>
    /\ out' = <<>>
    /\ guid_set' = fresh_guid_set(guid_set)
    /\ classified' = [n \in Nodes |-> 0]
    /\ UNCHANGED <<graph, result>>

\* Lines 1351-1360: the next exported value node of a canvas that is not
\* inline is classified.
FindExported ==
    /\ WalkOnly
    /\ Running("find", "exported")
    /\ ~is_inline(WTop.canvas)
    /\ WTop.i <= Len(value_node_list(WTop.canvas))
    /\ WalkPush([WTop EXCEPT !.i = @ + 1],
                ProcessFrame(ValueDesc_canvas(WTop.canvas,
                                              value_node_list(WTop.canvas)[WTop.i])))
    /\ UNCHANGED <<graph, earlier, out, guid_set, classified, result>>

\* Lines 1351-1364: the exported nodes are done, or the canvas is inline; the
\* loop over the layers begins.
FindExportedDone ==
    /\ WalkOnly
    /\ Running("find", "exported")
    /\ is_inline(WTop.canvas) \/ WTop.i > Len(value_node_list(WTop.canvas))
    /\ wstack' = WithTop([WTop EXCEPT !.pc = "layers", !.i = 1, !.j = 1])
    /\ UNCHANGED <<graph, earlier, walk, out, guid_set, classified, result>>

\* Lines 1367-1375: the next dynamic parameter of the layer is classified
\* unless its node is exported.
FindLayerParam ==
    /\ WalkOnly
    /\ Running("find", "layers")
    /\ WTop.i <= Len(canvas_layers(WTop.canvas))
    /\ LET layer == canvas_layers(WTop.canvas)[WTop.i]
           dl == dynamic_param_list(layer)
           f == [WTop EXCEPT !.j = @ + 1]
       IN  /\ WTop.j <= Len(dl)
           /\ IF ~is_exported(dl[WTop.j].node)
              THEN WalkPush(f, ProcessFrame(ValueDesc_layer(layer, dl[WTop.j].name)))
              ELSE wstack' = WithTop(f) /\ UNCHANGED walk
    /\ UNCHANGED <<graph, earlier, out, guid_set, classified, result>>

\* Lines 1376-1379: the layer's canvas parameter is classified when the layer
\* has one, and the loop goes on to the next layer.
FindLayerCanvas ==
    /\ WalkOnly
    /\ Running("find", "layers")
    /\ WTop.i <= Len(canvas_layers(WTop.canvas))
    /\ LET layer == canvas_layers(WTop.canvas)[WTop.i]
           f == [WTop EXCEPT !.i = @ + 1, !.j = 1]
       IN  /\ WTop.j > Len(dynamic_param_list(layer))
           /\ IF layer_canvas_param(layer) # NoValue
              THEN WalkPush(f, ProcessFrame(ValueDesc_layer(layer, "canvas")))
              ELSE wstack' = WithTop(f) /\ UNCHANGED walk
    /\ UNCHANGED <<graph, earlier, out, guid_set, classified, result>>

\* Line 1381: the layers are done and find_important_value_descs returns.
FindReturn ==
    /\ WalkOnly
    /\ Running("find", "layers")
    /\ WTop.i > Len(canvas_layers(WTop.canvas))
    /\ WalkReturn(WTop.ret)
    /\ UNCHANGED <<graph, earlier, out, guid_set, classified>>

\* Lines 1305-1312: a descriptor of a canvas returns when the canvas is null
\* or not inline, and walks the canvas when it is inline.
ProcessCanvasValue ==
    /\ WalkOnly
    /\ Running("process", "start")
    /\ desc_is_canvas(WTop.desc)
    /\ LET canvas == layer_canvas_param(WTop.desc.layer)
       IN  IF canvas = NoCanvas \/ ~is_inline(canvas)
           THEN WalkReturn(WTop.ret)
           ELSE /\ WalkPush([WTop EXCEPT !.pc = "node"], FindFrame(canvas))
                /\ UNCHANGED result
    /\ UNCHANGED <<graph, earlier, out, guid_set, classified>>

\* Line 1305: the descriptor is not of a canvas.
ProcessOtherValue ==
    /\ WalkOnly
    /\ Running("process", "start")
    /\ ~desc_is_canvas(WTop.desc)
    /\ wstack' = WithTop([WTop EXCEPT !.pc = "node"])
    /\ UNCHANGED <<graph, earlier, walk, out, guid_set, classified, result>>

\* Lines 1314-1319 and 1344: the descriptor holds no value node, or one whose
\* identity is in the set already.
ProcessSkip ==
    /\ WalkOnly
    /\ Running("process", "node")
    /\ IF desc_is_value_node(WTop.desc)
       THEN guid_seen(guid_set, desc_value_node(WTop.desc))
       ELSE TRUE
    /\ WalkReturn(WTop.ret)
    /\ UNCHANGED <<graph, earlier, out, guid_set, classified>>

\* Lines 1314-1342: the node is new: its identity enters the set; a dynamic
\* list and an animated node are recorded; a linkable node goes on to its
\* links, any other node returns.
ProcessValueNode ==
    /\ WalkOnly
    /\ Running("process", "node")
    /\ desc_is_value_node(WTop.desc)
    /\ LET n == desc_value_node(WTop.desc)
           kind == graph.kind[n]
       IN  /\ ~guid_seen(guid_set, n)
           /\ guid_set' = guid_set \cup {n}
           /\ classified' = [classified EXCEPT ![n] = @ + 1]
           /\ out' = IF kind \in {"dynamic_list", "animated"}
                     THEN Append(out, WTop.desc)
                     ELSE out
           /\ IF is_linkable(n)
              THEN /\ wstack' = WithTop([WTop EXCEPT
                                  !.pc = "links", !.i = 1,
                                  !.ret = IF kind = "dynamic_list" THEN @ + 1 ELSE @])
                   /\ UNCHANGED <<walk, result>>
              ELSE WalkReturn(IF kind = "animated" THEN WTop.ret + 1 ELSE WTop.ret)
    /\ UNCHANGED <<graph, earlier>>

\* The loop over the links going past every link, for comparison.
ProcessLinkSkipped ==
    /\ WalkOnly
    /\ Running("process", "links")
    /\ WTop.i <= Len(graph.links[desc_value_node(WTop.desc)])
    /\ wstack' = WithTop([WTop EXCEPT !.i = @ + 1])
    /\ UNCHANGED <<graph, earlier, walk, out, guid_set, classified, result>>

\* Lines 1331-1335: the next link of the node is classified unless the node
\* it leads to is exported.
ProcessLink ==
    /\ WalkOnly
    /\ Running("process", "links")
    /\ LET n == desc_value_node(WTop.desc)
           f == [WTop EXCEPT !.i = @ + 1]
       IN  /\ WTop.i <= Len(graph.links[n])
           /\ IF ~is_exported(graph.links[n][WTop.i])
              THEN WalkPush(f, ProcessFrame(ValueDesc_link(n, WTop.i)))
              ELSE wstack' = WithTop(f) /\ UNCHANGED walk
    /\ UNCHANGED <<graph, earlier, out, guid_set, classified, result>>

\* _process_value_desc returning zero after its links, for comparison.
ProcessReturnsZero ==
    /\ WalkOnly
    /\ Running("process", "links")
    /\ WTop.i > Len(graph.links[desc_value_node(WTop.desc)])
    /\ WalkReturn(0)
    /\ UNCHANGED <<graph, earlier, out, guid_set, classified>>

\* Lines 1331 and 1344: the links are done and _process_value_desc returns.
ProcessReturn ==
    /\ WalkOnly
    /\ Running("process", "links")
    /\ WTop.i > Len(graph.links[desc_value_node(WTop.desc)])
    /\ WalkReturn(WTop.ret)
    /\ UNCHANGED <<graph, earlier, out, guid_set, classified>>

WalkStep ==
    \/ FindExported
    \/ FindExportedDone
    \/ FindLayerParam
    \/ FindLayerCanvas
    \/ FindReturn
    \/ ProcessCanvasValue
    \/ ProcessOtherValue
    \/ ProcessSkip
    \/ ProcessValueNode
    \/ ProcessLink
    \/ ProcessReturn

NextWalk ==
    \/ WalkCall
    \/ WalkCallAgain
    \/ FindExported
    \/ FindExportedDone
    \/ FindLayerParam
    \/ FindLayerCanvas
    \/ FindReturn
    \/ ProcessCanvasValue
    \/ ProcessOtherValue
    \/ ProcessSkip
    \/ ProcessValueNode
    \/ ProcessLink
    \/ ProcessReturn

SpecWalk == InitWalk /\ [][NextWalk]_vars

\* The walker runs to its end once called: no other code runs in between.
SpecWalkFair == SpecWalk /\ WF_vars(WalkStep)

(***************************************************************************)
(* Properties of the walker.                                               *)
(***************************************************************************)
\* The node a collected descriptor addresses.
OutNodes == [k \in 1 .. Len(out) |-> desc_value_node(out[k])]

\* No inline canvas is reached from itself through the canvas parameters.
CanvasesNestProperly == graph.paste3 # "K"

\* Node n lies on a cycle of links of length two.
OnCycle(n) ==
    \E m \in Nodes \ {n} :
        /\ \E k \in 1 .. Len(graph.links[n]) : graph.links[n][k] = m
        /\ \E k \in 1 .. Len(graph.links[m]) : graph.links[m][k] = n

\* C10: on a value-node graph with cycles and shared nodes the walker
\* returns (the canvases nesting properly), and in one pass no node identity
\* gets past the identity test twice or appears twice in the output.
C10_WalkVisitsOnce ==
    /\ [](/\ \A n \in Nodes : classified[n] <= 1
          /\ \A k, l \in 1 .. Len(out) : k # l => OutNodes[k] # OutNodes[l])
    /\ ((walk = "running" /\ CanvasesNestProperly) ~> (walk = "done"))

\* The walk of a graph whose nodes 1 and 2 link to each other has returned
\* with both classified, node 2 being reached from layer L1 and from K too.
C10_Witness ==
    /\ walk = "done"
    /\ OnCycle(1)
    /\ graph.paste2 = "K"
    /\ classified[1] = 1 /\ classified[2] = 1
    /\ Len(out) >= 1

\* C11: the walker returns also when the inline canvas K, reached from
\* layer L2 of the document, holds a layer whose canvas parameter is K.
C11_SelfReferenceTerminates ==
    (walk = "running" /\ graph.paste2 = "K" /\ ~CanvasesNestProperly)
        ~> (walk = "done")

\* The canvases the walk of D enters: D and the inline canvas of its paste
\* layer.
WalkedCanvases ==
    {"D"} \cup (IF is_inline(graph.paste2) THEN {graph.paste2} ELSE {})

\* The value nodes the layers of those canvases are connected to.
ConnectedNodes ==
    {dynamic_param_list(canvas_layers(c)[i])[j].node :
        <<c, i, j>> \in
            {t \in WalkedCanvases \X (1 .. 2) \X (1 .. 2) :
                /\ t[2] <= Len(canvas_layers(t[1]))
                /\ t[3] <= Len(dynamic_param_list(canvas_layers(t[1])[t[2]]))}}

RECURSIVE LinkClosure(_)
\* The nodes reached from the set by following links.
LinkClosure(set) ==
    LET next == set \cup {graph.links[n][k] : <<n, k>> \in
                            {t \in set \X (1 .. 1) : t[2] <= Len(graph.links[t[1]])}}
    IN  IF next = set THEN set ELSE LinkClosure(next)

ReachableNodes == LinkClosure(ConnectedNodes)

\* The animated nodes and dynamic lists among a set of nodes.
Important(set) == {n \in set : graph.kind[n] \in {"animated", "dynamic_list"}}

NodesOf(descs) == {desc_value_node(descs[k]) : k \in 1 .. Len(descs)}

\* C12: a call that has returned collected every reachable animated node and
\* every reachable dynamic list; and a second call on the unchanged graph,
\* with an identity set and a vector of its own, collected as many
\* descriptors, of the same nodes, and returned the same count as the first.
C12_CollectsBothKindsRepeatably ==
    walk = "done" =>
        /\ Important(ReachableNodes) \subseteq NodesOf(out)
        /\ earlier.called =>
              /\ Len(out) = Len(earlier.out)
              /\ NodesOf(out) = NodesOf(earlier.out)
              /\ result = earlier.result

\* Two calls have returned on a document with one animated node and one
\* dynamic list, both collected.
C12_Witness ==
    /\ walk = "done"
    /\ earlier.called
    /\ graph.kind[1] = "animated"
    /\ graph.kind[2] = "dynamic_list"
    /\ NodesOf(out) = {1, 2}

(***************************************************************************)
(* Part 3: the entry points that edit the document (add_layer_to, import,  *)
(* import_sequence), the actions they perform and the groups they open.    *)
(*                                                                         *)
(* An entry point runs from its call to its return in one step.  Within    *)
(* it the program state is a record cs: the layer objects, the document,   *)
(* the undo log, the groups open (innermost last), the errors reported to  *)
(* the user interface and the log of the groups that were closed.          *)
(***************************************************************************)
Outcomes == {"ok", "not_ready", "failed"}

SeqRange(seq) == {seq[i] : i \in 1 .. Len(seq)}

Without(seq, set) == SelectSeq(seq, LAMBDA y : y \notin set)

InsertAt(seq, i, x) == SubSeq(seq, 1, i - 1) \o <<x>> \o SubSeq(seq, i, Len(seq))

RECURSIVE Located(_, _, _)
\* The layers of `set` in `seq` with their places, from place i on.
Located(seq, set, i) ==
    IF i > Len(seq) THEN <<>>
    ELSE (IF seq[i] \in set THEN <<[layer |-> seq[i], index |-> i]>> ELSE <<>>)
            \o Located(seq, set, i + 1)

RECURSIVE ReinsertAll(_, _)
\* Each layer of `at` put back at its place, lowest place first.
ReinsertAll(seq, at) ==
    IF at = <<>> THEN seq
    ELSE ReinsertAll(InsertAt(seq, at[1].index, at[1].layer), Tail(at))

\* The smallest identity no layer object has.
NewLayerId(objs) ==
    CHOOSE l \in LayerIds :
        /\ objs[l].kind = "free"
        /\ \A k \in LayerIds : objs[k].kind = "free" => l <= k

FreeLayers(objs) == {l \in LayerIds : objs[l].kind = "free"}

\* The layers a document holds, in its canvases or inside a switch or group.
DocLayers(d) ==
    UNION {SeqRange(d.layers[c]) : c \in DocCanvases}
        \cup {pr[2] : pr \in d.inside}

\* ---- the action catalog: LayerAdd, LayerRemove, LayerMove,
\* ---- LayerEncapsulateSwitch, LayerParamConnect.
Action(type, canvas, lyrs, d) ==
    [type |-> type, canvas |-> canvas, want |-> lyrs,
     at |-> IF canvas = "" THEN <<>> ELSE Located(d.layers[canvas], lyrs, 1),
     made |-> NoLayer, index |-> 0, param |-> "", wps |-> <<>>, desc |-> "",
     key |-> "", value |-> "", old |-> ""]

LayerAdd(cs, canvas, layer) == Action("LayerAdd", canvas, {layer}, cs.doc)

LayerRemove(cs, canvas, lyrs) == Action("LayerRemove", canvas, lyrs, cs.doc)

LayerMove(cs, canvas, layer, depth) ==
    [Action("LayerMove", canvas, {layer}, cs.doc) EXCEPT
        !.index = IF depth + 1 > Len(cs.doc.layers[canvas])
                  THEN Len(cs.doc.layers[canvas]) ELSE depth + 1]

LayerEncapsulateSwitch(cs, canvas, lyrs, desc) ==
    [Action("LayerEncapsulateSwitch", canvas, lyrs, cs.doc) EXCEPT
        !.made = IF FreeLayers(cs.layers) = {} THEN NoLayer ELSE NewLayerId(cs.layers),
        !.desc = desc]

LayerParamConnect(cs, canvas, layer, param, wps) ==
    [Action("LayerParamConnect", canvas, {layer}, cs.doc) EXCEPT
        !.param = param, !.wps = wps]

\* An action that sets what the canvas holds under a key: EditModeSet,
\* CanvasRendDescSet, CanvasNameSet, CanvasDescriptionSet, CanvasIdSet,
\* CanvasMetadataSet, CanvasMetadataErase, ValueNodeAdd, ValueDescConvert,
\* ValueDescSet, WaypointSetSmart, WaypointRemove, TimepointsMove.
KeyAction(type, canvas, key, value, cs) ==
    [Action(type, "", {}, cs.doc) EXCEPT
        !.canvas = canvas, !.key = key, !.value = value,
        !.old = IF key \in PropKeys THEN cs.doc.props[key] ELSE ""]

\* Action::is_ready(): the parameters the action needs are bound.
action_is_ready(act) ==
    IF act.key # "" THEN act.canvas # "" /\ act.key \in PropKeys
    ELSE act.canvas # "" /\ act.want # {} /\ NoLayer \notin act.want

\* The action can be applied: LayerAdd wants its layer outside the canvas,
\* the other actions want every layer of theirs in it.
action_applies(cs, act) ==
    IF act.type = "LayerAdd"
    THEN act.at = <<>>
    ELSE /\ Len(act.at) = Cardinality(act.want)
         /\ act.type = "LayerEncapsulateSwitch" => act.made # NoLayer

Connection(act) ==
    [layer |-> (CHOOSE l \in act.want : TRUE), param |-> act.param, wps |-> act.wps]

\* Action::perform().
action_perform(cs, act) ==
    LET c == act.canvas
        ls == act.want
        l == CHOOSE x \in ls : TRUE
    IN  CASE act.type = "LayerAdd" ->
                [cs EXCEPT !.doc.layers[c] = <<l>> \o @]
          [] act.type = "LayerRemove" ->
                [cs EXCEPT !.doc.layers[c] = Without(@, ls)]
          [] act.type = "LayerMove" ->
                [cs EXCEPT !.doc.layers[c] = InsertAt(Without(@, ls), act.index, l)]
          [] act.type = "LayerEncapsulateSwitch" ->
                [cs EXCEPT
                    !.layers[act.made] =
                        [kind |-> "switch", home |-> c, desc |-> act.desc,
                         filename |-> "", canvas |-> "inline", defaults |-> FALSE],
                    !.doc.layers[c] =
                        InsertAt(Without(@, ls), act.at[1].index, act.made),
                    !.doc.inside = @ \cup {<<act.made, x>> : x \in ls}]
          [] act.key # "" ->
                [cs EXCEPT !.doc.props[act.key] = act.value]
          [] OTHER ->
                [cs EXCEPT !.doc.conn = @ \cup {Connection(act)}]

\* Action::undo().
action_undo(cs, act) ==
    LET c == act.canvas
        ls == act.want
    IN  CASE act.type = "LayerAdd" ->
                [cs EXCEPT !.doc.layers[c] = Without(@, ls)]
          [] act.type = "LayerRemove" ->
                [cs EXCEPT !.doc.layers[c] = ReinsertAll(@, act.at)]
          [] act.type = "LayerMove" ->
                [cs EXCEPT !.doc.layers[c] = ReinsertAll(Without(@, ls), act.at)]
          [] act.type = "LayerEncapsulateSwitch" ->
                [cs EXCEPT
                    !.layers[act.made] = FreeLayer,
                    !.doc.layers[c] = ReinsertAll(Without(@, {act.made}), act.at),
                    !.doc.inside = @ \ {<<act.made, x>> : x \in ls}]
          [] act.key # "" ->
                [cs EXCEPT !.doc.props[act.key] = act.old]
          [] OTHER ->
                [cs EXCEPT !.doc.conn = @ \ {Connection(act)}]

\* ---- Action::System and Action::PassiveGrouper.
\* PassiveGrouper::PassiveGrouper: a group named `name` opens.
group_open(cs, name) ==
    [cs EXCEPT !.groups = Append(@, [name |-> name, depth |-> 0, cancelled |-> FALSE])]

\* PassiveGrouper::inc_depth on the innermost open group.
inc_depth(cs) ==
    IF cs.groups = <<>> THEN cs
    ELSE [cs EXCEPT !.groups[Len(cs.groups)].depth = @ + 1]

\* PassiveGrouper::dec_depth on the innermost open group.
dec_depth(cs) ==
    IF cs.groups = <<>> THEN cs
    ELSE [cs EXCEPT !.groups[Len(cs.groups)].depth = @ - 1]

\* Instance::perform_action: the action is applied, becomes the newest entry
\* of the undo log and counts for the innermost open group; or it fails and
\* nothing changes.  `submitted` counts the calls, `unready` those whose
\* action was not ready, and `by` holds the canvases of the actions.
perform_action(cs, act, outcome) ==
    IF outcome = "ok" /\ action_is_ready(act) /\ action_applies(cs, act)
    THEN [cs |-> inc_depth([action_perform(cs, act) EXCEPT
                               !.undo = Append(@, [name |-> act.type,
                                                   actions |-> <<act>>]),
                               !.performed = @ + 1,
                               !.submitted = @ + 1,
                               !.by = @ \cup {act.canvas}]),
          ok |-> TRUE]
    ELSE [cs |-> [cs EXCEPT
                    !.submitted = @ + 1,
                    !.by = @ \cup {act.canvas},
                    !.unready = IF outcome = "not_ready" \/ ~action_is_ready(act)
                                THEN @ + 1 ELSE @],
          ok |-> FALSE]

RECURSIVE undo_all(_, _)
\* The actions of an undo entry reverted, the last applied first.
undo_all(cs, acts) ==
    IF acts = <<>> THEN cs
    ELSE undo_all(action_undo(cs, acts[Len(acts)]), SubSeq(acts, 1, Len(acts) - 1))

\* Instance::undo: the newest entry of the undo log is reverted and removed.
undo(cs) ==
    dec_depth([undo_all(cs, cs.undo[Len(cs.undo)].actions) EXCEPT
                  !.undo = SubSeq(cs.undo, 1, Len(cs.undo) - 1)])

RECURSIVE group_cancel(_)
\* PassiveGrouper::cancel on the innermost open group: undo as many entries
\* as the group counts.
group_cancel(cs) ==
    IF cs.groups[Len(cs.groups)].depth = 0 \/ cs.undo = <<>>
    THEN [cs EXCEPT !.groups[Len(cs.groups)].cancelled = TRUE]
    ELSE group_cancel(undo(cs))

RECURSIVE Flatten(_)
Flatten(entries) ==
    IF entries = <<>> THEN <<>> ELSE entries[1].actions \o Flatten(Tail(entries))

\* PassiveGrouper::~PassiveGrouper: the innermost group closes; the entries
\* it counts become one entry under its name, which counts for the group
\* around it.
group_finish(cs) ==
    LET g == cs.groups[Len(cs.groups)]
        rest == SubSeq(cs.groups, 1, Len(cs.groups) - 1)
        n == Len(cs.undo)
        how == IF g.cancelled THEN "cancelled"
               ELSE IF g.depth = 0 THEN "empty" ELSE "committed"
        closed == [cs EXCEPT !.groups = rest,
                             !.log = Append(@, [name |-> g.name, how |-> how])]
    IN  IF g.depth = 0 THEN closed
        ELSE inc_depth([closed EXCEPT
                !.undo = Append(SubSeq(cs.undo, 1, n - g.depth),
                                [name |-> g.name,
                                 actions |-> Flatten(SubSeq(cs.undo, n - g.depth + 1, n))])])

\* UIInterface::error: one more error shown to the user.
ui_error(cs) == [cs EXCEPT !.errors = @ + 1]

\* ---- the entry points, from canvasinterface.cpp.
\* What a step of an entry point hands on: the state, the value returned and
\* the exception thrown, if any.
Ret(cs, ret) == [cs |-> cs, ret |-> ret, exc |-> "none"]

Throw(cs, what) == [cs |-> cs, ret |-> NoLayer, exc |-> what]

\* Layers that are paste canvases (Layer_PasteCanvas::Handle::cast_dynamic).
PasteCanvasKinds == {"group", "switch", "svg_layer"}

\* Path::filename(): the base name with the extension.
FileName(path) ==
    IF path.ext = "" THEN path.base ELSE path.base \o "." \o path.ext

\* strtolower on the extensions the model uses.
strtolower(ext) ==
    CASE ext = "PNG" -> "png"
      [] ext = "WAV" -> "wav"
      [] ext = "Mp3" -> "mp3"
      [] ext = "Svg" -> "svg"
      [] OTHER       -> ext

\* Importer::book().count(ext): the raster formats with an importer.
Importer_book == {"png"}

\* get_instance()->perform_action(action) on an action whose is_ready() the
\* interface did not call, as at lines 610, 627, 646, 663, 1108, 1132, 1161,
\* 1186, 1243, 1267 and 1291.
perform_unchecked(cs, act, outcome) ==
    perform_action([cs EXCEPT !.unchecked = @ + 1], act, outcome)

\* Action::create(name) gave none: return; otherwise
\* if(!get_instance()->perform_action(action)) error("Action Failed."), as at
\* lines 600-611.
perform_or_report(cs, act, outcome) ==
    IF outcome = "unknown" THEN [cs |-> cs, ok |-> FALSE]
    ELSE LET r == perform_unchecked(cs, act, outcome)
         IN  IF r.ok THEN r ELSE [cs |-> ui_error(r.cs), ok |-> FALSE]

\* Lines 163-185, set_mode.
set_mode(cs, x, outcome) ==
    LET act == KeyAction("EditModeSet", "own", "mode", x, cs)
    IN  IF ~action_is_ready(act) \/ outcome = "not_ready"
        THEN [cs |-> ui_error(cs), ok |-> FALSE]
        ELSE LET r == perform_action(cs, act, outcome)
             IN  IF r.ok THEN r ELSE [cs |-> ui_error(r.cs), ok |-> FALSE]

\* convert passing the action on without asking whether it is ready.
convert_unchecked(cs, value_desc, type, outcome) ==
    perform_or_report(cs, KeyAction("ValueDescConvert", "own", value_desc, type, cs),
                      outcome)

\* Lines 467-493, convert.
convert(cs, value_desc, type, outcome) ==
    IF outcome = "unknown" THEN [cs |-> cs, ok |-> FALSE]
    ELSE LET act == KeyAction("ValueDescConvert", "own", value_desc, type, cs)
         IN  IF ~action_is_ready(act) \/ outcome = "not_ready"
             THEN [cs |-> ui_error(cs), ok |-> FALSE]
             ELSE LET r == perform_action(cs, act, outcome)
                  IN  IF r.ok THEN r ELSE [cs |-> ui_error(r.cs), ok |-> FALSE]

\* Lines 495-526, add_value_node.
add_value_node(cs, value_node, name, outcome) ==
    IF name = "" THEN [cs |-> ui_error(cs), ok |-> FALSE]
    ELSE IF outcome = "unknown" THEN [cs |-> cs, ok |-> FALSE]
    ELSE LET act == KeyAction("ValueNodeAdd", "own", value_node, name, cs)
         IN  IF ~action_is_ready(act) \/ outcome = "not_ready"
             THEN [cs |-> ui_error(cs), ok |-> FALSE]
             ELSE LET r == perform_action(cs, act, outcome)
                  IN  IF r.ok THEN r ELSE [cs |-> ui_error(r.cs), ok |-> FALSE]

\* Lines 597-612, set_rend_desc.
set_rend_desc(cs, rend_desc, outcome) ==
    perform_or_report(cs, KeyAction("CanvasRendDescSet", "own", "rend_desc", rend_desc, cs),
                      outcome)

\* Lines 614-631, set_name.
set_name(cs, x, outcome) ==
    perform_or_report(cs, KeyAction("CanvasNameSet", "own", "name", x, cs), outcome)

\* Lines 633-648, CanvasInterface::set_description.
canvas_set_description(cs, x, outcome) ==
    perform_or_report(cs, KeyAction("CanvasDescriptionSet", "own", "description", x, cs),
                      outcome)

\* Lines 650-667, set_id.
set_id(cs, x, outcome) ==
    perform_or_report(cs, KeyAction("CanvasIdSet", "own", "id", x, cs), outcome)

\* Lines 1094-1110, waypoint_set_value_node.
waypoint_set_value_node(cs, waypoint, outcome) ==
    perform_or_report(cs, KeyAction("WaypointSetSmart", "own", "waypoint", waypoint, cs),
                      outcome)

\* Lines 1112-1134, waypoint_move.
waypoint_move(cs, waypoint, outcome) ==
    perform_or_report(cs, KeyAction("TimepointsMove", "own", "waypoint", waypoint, cs),
                      outcome)

\* Lines 1143-1163, waypoint_duplicate.
waypoint_duplicate(cs, waypoint, outcome) ==
    perform_or_report(cs, KeyAction("WaypointSetSmart", "own", "waypoint", waypoint, cs),
                      outcome)

\* Lines 1172-1188, waypoint_remove.
waypoint_remove(cs, outcome) ==
    perform_or_report(cs, KeyAction("WaypointRemove", "own", "waypoint", "", cs), outcome)

\* set_meta_data setting every key on the canvas itself.
set_meta_data_direct(cs, key, data, outcome) ==
    IF cs.doc.props[key] = data THEN cs
    ELSE [cs EXCEPT !.doc.props[key] = data]

\* Lines 1246-1273, set_meta_data: nothing for the value the key has; the
\* key "guide" goes through an action whose result is not looked at, any
\* other key is set on the canvas itself.
set_meta_data(cs, key, data, outcome) ==
    IF cs.doc.props[key] = data THEN cs
    ELSE IF key = "guide"
         THEN IF outcome = "unknown" THEN cs
              ELSE perform_unchecked(cs, KeyAction("CanvasMetadataSet", "own", key, data, cs),
                                     outcome).cs
         ELSE [cs EXCEPT !.doc.props[key] = data]

\* Lines 1275-1297, erase_meta_data.
erase_meta_data(cs, key, outcome) ==
    IF key = "guide"
    THEN IF outcome = "unknown" THEN cs
         ELSE perform_unchecked(cs, KeyAction("CanvasMetadataErase", "own", key, "", cs),
                                outcome).cs
    ELSE [cs EXCEPT !.doc.props[key] = ""]

\* The key under which the canvas holds what a value descriptor addresses.
DescKey(value_desc) == "value@" \o value_desc.canvas

\* ValueDesc::get_value(time); the values of the model do not vary in time.
get_value(cs, value_desc, time) == cs.doc.props[DescKey(value_desc)]

\* find_instance(root): the open instance of the root canvas, if any.
find_instance(root, open) == IF root \in open THEN root ELSE NoCanvas

\* The test of line 1202 finding every value new.
same_value_never(new_value, old_value) == FALSE

\* Line 1202: new_value==old_value.
same_value(new_value, old_value) == new_value = old_value

\* The test of lines 1209-1211 never sending the change elsewhere.
elsewhere_never(m, value_desc) == FALSE

\* Lines 1209-1211: the descriptor has a canvas, and its root is not the
\* root of the interface's canvas.
elsewhere(m, value_desc) ==
    /\ value_desc.canvas # NoCanvas
    /\ get_root(value_desc.canvas) # get_root(get_canvas(m))

\* Lines 1230-1243: the ValueDescSet action of the interface m, passed on
\* with no question whether it is ready; what perform_action answers is the
\* result, and nothing is reported.
change_value_here(cs, m, value_desc, new_value, time, lock_animation, outcome) ==
    IF outcome = "unknown" THEN [cs |-> cs, ok |-> FALSE]
    ELSE perform_unchecked(
            cs,
            [KeyAction("ValueDescSet", get_canvas(m), DescKey(value_desc), new_value, cs)
                EXCEPT !.index = time,
                       !.param = IF lock_animation THEN "lock_animation" ELSE ""],
            outcome)

RECURSIVE change_value_at_time(_, _, _, _, _, _, _)
\* Lines 1196-1244, change_value_at_time on the interface m: nothing for the
\* value the descriptor has; a descriptor of another tree goes to the
\* interface of its canvas in the open instance of that tree, without the
\* lock_animation flag, or is reported when no such instance is open.
change_value_at_time(cs, m, value_desc, new_value, time, lock_animation, env) ==
    IF same_value(new_value, get_value(cs, value_desc, time))
    THEN [cs |-> cs, ok |-> TRUE]
    ELSE IF elsewhere(m, value_desc)
    THEN IF find_instance(get_root(value_desc.canvas), env.open) # NoCanvas
         THEN change_value_at_time([cs EXCEPT !.hops = @ + 1],
                                   find_canvas_interface(value_desc.canvas),
                                   value_desc, new_value, time, FALSE, env)
         ELSE [cs |-> ui_error(cs), ok |-> FALSE]
    ELSE change_value_here(cs, m, value_desc, new_value, time, lock_animation,
                           env.action)

\* The test of line 214 letting every canvas pass.
bad_canvas_never(canvas) == FALSE

\* Line 214: the canvas is neither the interface's own nor inline.
bad_canvas(canvas) == canvas # "own" /\ ~is_inline(canvas)

\* Lines 221-234: the first "Index i" that names no value node.
free_index_id(cs) ==
    IF cs.doc.props["exported"] = "Index 1" THEN "Index 2" ELSE "Index 1"

\* Lines 236-240: the layer belongs to the canvas, and a paste canvas gets
\* an inline canvas of its own.
layer_created(cs, id, canvas) ==
    LET l == NewLayerId(cs.layers)
    IN  [cs |-> [cs EXCEPT !.layers[l] =
                   [kind |-> id, home |-> canvas, desc |-> "", filename |-> "",
                    canvas |-> IF id \in PasteCanvasKinds THEN "inline" ELSE "",
                    defaults |-> FALSE]],
         ret |-> l]

\* Lines 204-241, layer_create: no layer when Layer::create gives none or
\* the canvas is neither the interface's own nor inline; the index of a
\* new duplicate layer is exported, whatever add_value_node answers.
layer_create_exporting(cs, id, canvas, created, exported) ==
    IF ~created THEN [cs |-> cs, ret |-> NoLayer]
    ELSE IF bad_canvas(canvas) THEN [cs |-> cs, ret |-> NoLayer]
    ELSE IF id = "duplicate"
         THEN layer_created(add_value_node(cs, "exported", free_index_id(cs), exported).cs,
                            id, canvas)
         ELSE layer_created(cs, id, canvas)

\* layer_create when the export of the index, if any, succeeds.
layer_create(cs, id, canvas, created) ==
    layer_create_exporting(cs, id, canvas, created, "ok")

\* Lines 243-404, layer_set_defaults: the layer takes the current defaults.
layer_set_defaults(cs, layer) ==
    IF layer = NoLayer \/ cs.layers[layer].home = "" THEN cs
    ELSE [cs EXCEPT !.layers[layer].defaults = TRUE]

\* layer_add_action changing the canvas itself, with no action performed.
layer_add_action_direct(cs, layer, outcome) ==
    IF layer = NoLayer \/ cs.layers[layer].home = ""
    THEN [cs |-> cs, ok |-> FALSE]
    ELSE [cs |-> [cs EXCEPT !.doc.layers[cs.layers[layer].home] = <<layer>> \o @],
          ok |-> TRUE]

\* Lines 406-426, layer_add_action.
layer_add_action(cs, layer, outcome) ==
    IF layer = NoLayer \/ cs.layers[layer].home = ""
    THEN [cs |-> cs, ok |-> FALSE]
    ELSE LET act == LayerAdd(cs, cs.layers[layer].home, layer)
         IN  IF ~action_is_ready(act) \/ outcome = "not_ready"
             THEN [cs |-> ui_error(cs), ok |-> FALSE]
             ELSE LET r == perform_action(cs, act, outcome)
                  IN  IF ~r.ok THEN [cs |-> ui_error(r.cs), ok |-> FALSE]
                      ELSE [cs |-> r.cs, ok |-> TRUE]

\* Lines 428-449, layer_move_action.
layer_move_action(cs, layer, depth, outcome) ==
    IF layer = NoLayer \/ cs.layers[layer].home = ""
    THEN [cs |-> cs, ok |-> FALSE]
    ELSE LET act == LayerMove(cs, cs.layers[layer].home, layer, depth)
         IN  IF ~action_is_ready(act) \/ outcome = "not_ready"
             THEN [cs |-> ui_error(cs), ok |-> FALSE]
             ELSE LET r == perform_action(cs, act, outcome)
                  IN  IF ~r.ok THEN [cs |-> ui_error(r.cs), ok |-> FALSE]
                      ELSE [cs |-> r.cs, ok |-> TRUE]

\* Lines 451-465, add_layer_to: in a group of its own the layer is created,
\* takes the defaults, is added and, for a depth other than 0, moved; what
\* the two actions return is not looked at.
add_layer_to(cs, id, canvas, depth, created, add, move) ==
    LET c == layer_create(group_open(cs, "Add Layer To"), id, canvas, created)
    IN  IF c.ret = NoLayer
        THEN [cs |-> group_finish(c.cs), ret |-> NoLayer]
        ELSE LET a == layer_add_action(layer_set_defaults(c.cs, c.ret), c.ret, add)
                 m == IF depth # 0
                      THEN layer_move_action(a.cs, c.ret, depth, move)
                      ELSE a
             IN  [cs |-> group_finish(m.cs), ret |-> c.ret]

\* An action built at the call site: created, asked is_ready, performed.
\* "unknown" is Action::create giving no action.
SiteOutcomes == Outcomes \cup {"unknown"}

\* if(!perform_action(action)) { error(...); ... }, as at lines 844-847,
\* 927-928, 1057-1058, 1061-1062 and 1079-1080.
site_performed(r) ==
    IF r.ok THEN r ELSE [cs |-> ui_error(r.cs), ok |-> FALSE]

\* if(!action->is_ready()) { error(...); ... } followed by the above, as at
\* lines 840-847, 925-928, 1055-1058 and 1077-1080.
ready_and_perform(cs, act, outcome) ==
    IF ~action_is_ready(act) \/ outcome = "not_ready"
    THEN [cs |-> ui_error(cs), ok |-> FALSE]
    ELSE site_performed(perform_action(cs, act, outcome))

\* The end of the scope of a PassiveGrouper, whichever way it is left.
group_closed(r) == [r EXCEPT !.cs = group_finish(r.cs)]

\* Layer::set_description and Layer::set_param("filename"), ("canvas").
set_description(cs, layer, desc) == [cs EXCEPT !.layers[layer].desc = desc]

set_filename(cs, layer, name) == [cs EXCEPT !.layers[layer].filename = name]

set_canvas(cs, layer, canvas) == [cs EXCEPT !.layers[layer].canvas = canvas]

\* Lines 802-806 of import: the sound layer is added.
import_lipsync_sound_added(a, layer_switch) ==
    IF ~a.ok THEN Throw(a.cs, "String") ELSE Ret(a.cs, layer_switch)

\* Lines 794-803 of import: the sound layer of the lip-sync file.
import_lipsync_sound(c, layer_switch, path, env) ==
    IF c.ret = NoLayer THEN Throw(c.cs, "String")
    ELSE import_lipsync_sound_added(
            layer_add_action(
                set_filename(set_description(layer_set_defaults(c.cs, c.ret),
                                             c.ret, FileName(path)),
                             c.ret, "sound"),
                c.ret, env.add2),
            layer_switch)

\* Lines 782-806 of import: the switch layer is added; the sound layer
\* follows when the file names a sound.
import_lipsync_added(a, layer_switch, path, env) ==
    IF ~a.ok THEN Throw(a.cs, "String")
    ELSE IF ~env.extra THEN Ret(a.cs, layer_switch)
    ELSE import_lipsync_sound(layer_create(a.cs, "sound", "own", env.create2),
                              layer_switch, path, env)

\* Lines 771-782 of import: the switch layer of the lip-sync file.
import_lipsync_switch(c, path, env) ==
    IF c.ret = NoLayer THEN Throw(c.cs, "String")
    ELSE import_lipsync_added(
            layer_add_action(
                set_description(layer_set_defaults(c.cs, c.ret), c.ret, FileName(path)),
                c.ret, env.add1),
            c.ret, path, env)

\* Lines 765-807 of import: the lip-sync formats, in a group of their own.
import_lipsync(cs, path, env) ==
    group_closed(
        import_lipsync_switch(
            layer_create(group_open(cs, "Import Lipsync"), "switch", "own", env.create1),
            path, env))

\* Lines 819-822 of import.
import_sound_added_none(a, layer) == Ret(a.cs, NoLayer)

\* Lines 819-822 of import: the layer added is returned.
import_sound_added(a, layer) ==
    IF ~a.ok THEN Throw(a.cs, "String") ELSE Ret(a.cs, layer)

\* Lines 811-819 of import.
import_sound_layer(c, path, env) ==
    IF c.ret = NoLayer THEN Throw(c.cs, "String")
    ELSE import_sound_added(
            layer_add_action(
                set_filename(set_description(layer_set_defaults(c.cs, c.ret),
                                             c.ret, FileName(path)),
                             c.ret, FileName(path)),
                c.ret, env.add1),
            c.ret)

\* Lines 809-823 of import: the audio formats.
import_sound(cs, path, env) ==
    import_sound_layer(layer_create(cs, "sound", "own", env.create1), path, env)

\* Lines 844-850 of import.
import_svg_removed(r, new_layer) ==
    IF ~r.ok THEN Ret(r.cs, NoLayer) ELSE Ret(r.cs, new_layer)

\* Lines 833-847 of import: the auxiliary layer is removed by an action.
import_svg_remove(cs, new_layer, aux_layer, env) ==
    IF env.action = "unknown" THEN Ret(cs, NoLayer)
    ELSE import_svg_removed(
            ready_and_perform(cs, LayerRemove(cs, "own", {aux_layer}), env.action),
            new_layer)

\* Lines 829-850 of import. With the group layer missing and the auxiliary
\* layer there, line 831 goes through a null handle.
import_svg_merge(new_layer, x, path, env) ==
    IF x.ret = NoLayer THEN Ret(x.cs, new_layer)
    ELSE IF new_layer = NoLayer THEN Throw(x.cs, "crash")
    ELSE import_svg_remove(
            set_canvas(set_filename(x.cs, x.ret, FileName(path)), new_layer, "svg"),
            new_layer, x.ret, env)

\* Line 828 of import.
import_svg_aux(n, path, env) ==
    import_svg_merge(n.ret,
                     add_layer_to(n.cs, "svg_layer", "own", 0, env.create2, env.add2, "ok"),
                     path, env)

\* Lines 825-851 of import: the vector drawing.
import_svg(cs, path, env) ==
    import_svg_aux(add_layer_to(cs, "group", "own", 0, env.create1, env.add1, "ok"),
                   path, env)

\* Lines 865-875 of import: the group layer takes the canvas opened and the
\* canvas is registered as external.
import_sif_layer(l, path, env) ==
    IF l.ret = NoLayer THEN Ret(ui_error(l.cs), NoLayer)
    ELSE IF ~env.param1 THEN Ret(ui_error(l.cs), NoLayer)
    ELSE IF ~env.param2 THEN Ret(ui_error(set_canvas(l.cs, l.ret, "outside")), NoLayer)
    ELSE Ret([set_canvas(l.cs, l.ret, "outside") EXCEPT
                 !.doc.external = @ \cup {FileName(path)}],
             l.ret)

\* Lines 854-886 of import: the native project format; every exception is
\* caught, reported and turned into a null layer.
import_sif(cs, path, env) ==
    IF ~env.extra \/ ~env.extra2 THEN Ret(ui_error(cs), NoLayer)
    ELSE import_sif_layer(
            add_layer_to(cs, "group", "own", 0, env.create1, env.add1, "ok"),
            path, env)

\* The catch block of the raster formats with no group.cancel(), for
\* comparison.
import_raster_failed_uncancelled(cs) == Ret(ui_error(cs), NoLayer)

\* Lines 937-942 of import: the catch block of the raster formats.
import_raster_failed(cs) == Ret(group_cancel(ui_error(cs)), NoLayer)

\* Lines 925-935 of import.
import_raster_encapsulated(r, made) ==
    IF ~r.ok THEN Ret(r.cs, NoLayer) ELSE Ret(r.cs, made)

\* Lines 918-935 of import: the image layer goes into a switch; the action
\* that is missing, not ready or failing leaves the function by a return.
import_raster_encapsulate(cs, act, env) ==
    IF env.action = "unknown" THEN Ret(cs, NoLayer)
    ELSE import_raster_encapsulated(ready_and_perform(cs, act, env.action), act.made)

\* Lines 899-924 of import.
import_raster_described(cs, layer, path, env) ==
    import_raster_encapsulate(
        cs, LayerEncapsulateSwitch(cs, "own", {layer}, FileName(path)), env)

\* Lines 896-904 of import: the image layer, its file name and its size.
import_raster_layer(l, path, env) ==
    IF l.ret = NoLayer THEN import_raster_failed(l.cs)
    ELSE IF ~env.param1 THEN import_raster_failed(l.cs)
    ELSE IF ~env.param2
         THEN import_raster_failed(set_filename(l.cs, l.ret, FileName(path)))
    ELSE import_raster_described(
            set_description(set_filename(l.cs, l.ret, FileName(path)),
                            l.ret, FileName(path)),
            l.ret, path, env)

\* Lines 894-942 of import: the raster formats.
import_raster(cs, path, env) ==
    import_raster_layer(
        add_layer_to(cs, "Import", "own", 0, env.create1, env.add1, "ok"),
        path, env)

\* The test of line 888 letting every extension pass.
unknown_type_never(ext) == FALSE

\* Line 888: no importer is registered for the extension.
unknown_type(ext) == ext \notin Importer_book

\* Lines 753-942 of import: the branches by extension.
import_dispatch(g, path, ext, env) ==
    IF path.ext = "" THEN Ret(ui_error(g), NoLayer)
    ELSE IF ext \in {"pgo", "tsv", "xml"} THEN import_lipsync(g, path, env)
    ELSE IF ext \in {"wav", "ogg", "mp3"} THEN import_sound(g, path, env)
    ELSE IF ext = "svg" THEN import_svg(g, path, env)
    ELSE IF ext \in {"sif", "sifz"} THEN import_sif(g, path, env)
    ELSE IF unknown_type(ext) THEN Ret(ui_error(g), NoLayer)
    ELSE import_raster(g, path, env)

\* Lines 742-943, import: the group "Import" is open from the first line to
\* the return, whichever way the function is left.
import(cs, path, env) ==
    group_closed(import_dispatch(group_open(cs, "Import"), path, strtolower(path.ext), env))

\* ---- import_sequence.
\* A file of the sequence: its extension, how far importing it gets and the
\* surface its image renders to.
Fates == {"ok", "no_layer", "add_failed", "no_filename", "not_bitmap",
          "no_lock", "no_size"}

Surfaces == {"s1", "s2"}

NoSurface == "none"

\* The k-th path of the set of file names.
SequencePath(f, k) == [base |-> "f" \o ToString(k), ext |-> f.ext]

\* import_sequence's catch block of lines 1046-1050 returning false with no
\* group.cancel().
import_file_failed_uncancelled(st, cs) ==
    [st EXCEPT !.cs = cs, !.errs = @ + 1, !.failed = TRUE]

\* Lines 1046-1050: the catch block of one file.
import_file_failed(st, cs) ==
    [st EXCEPT !.cs = group_cancel(cs), !.errs = @ + 1, !.failed = TRUE]

\* Lines 1041-1043: the waypoint of a layer that is kept, at the time
\* layers_count/fps (kept as the count; fps is the same for all), with
\* constant interpolation before and after.
new_waypoint(layers_count, desc) ==
    [index |-> layers_count, desc |-> desc,
     before |-> "constant", after |-> "constant"]

\* The comparison of lines 1007-1024 finding no image equal to another.
equals_previous_never(st, f, remove_dups) == FALSE

\* Lines 1007-1024: duplicates are to be removed and the surface of the
\* image equals the one of the last image kept.
equals_previous(st, f, remove_dups) ==
    remove_dups /\ st.prev # NoSurface /\ f.surface = st.prev

\* Lines 1005-1045: the comparison with the previous image, then the size,
\* the description and the waypoint of a layer that is kept.
import_file_compare(st, cs, layer, f, desc, remove_dups) ==
    IF remove_dups /\ f.fate \in {"not_bitmap", "no_lock"}
    THEN import_file_failed(st, cs)
    ELSE IF equals_previous(st, f, remove_dups)
    THEN [st EXCEPT !.cs = cs, !.dups = @ \cup {layer}, !.count = @ + 1]
    ELSE IF f.fate = "no_size" THEN import_file_failed(st, cs)
    ELSE [st EXCEPT
            !.cs = set_description(cs, layer, desc),
            !.kept = @ \cup {layer},
            !.first = IF @ = NoLayer THEN layer ELSE @,
            !.prev = IF remove_dups THEN f.surface ELSE @,
            !.desc = IF st.count = 0 THEN desc ELSE @,
            !.wps = Append(@, new_waypoint(st.count, desc)),
            !.count = @ + 1]

\* Lines 999-1003: the layer of one file and its file name.
import_file_layer(st, l, f, desc, remove_dups) ==
    IF l.ret = NoLayer THEN import_file_failed(st, l.cs)
    ELSE IF f.fate = "no_filename" THEN import_file_failed(st, l.cs)
    ELSE import_file_compare(st, set_filename(l.cs, l.ret, desc), l.ret,
                             f, desc, remove_dups)

\* Lines 978-1050: the body of the loop for one file.
import_file(st, f, k, remove_dups) ==
    IF strtolower(f.ext) = "" \/ strtolower(f.ext) \notin Importer_book
    THEN [st EXCEPT !.errs = @ + 1, !.skipped = @ + 1]
    ELSE import_file_layer(
            st,
            add_layer_to(st.cs, "Import", "own", 0, f.fate # "no_layer",
                         IF f.fate = "add_failed" THEN "failed" ELSE "ok", "ok"),
            f, FileName(SequencePath(f, k)), remove_dups)

RECURSIVE import_files(_, _, _, _)
\* Lines 977-1051: the loop over the file names, left at the first file
\* whose catch block returns.
import_files(st, files, k, remove_dups) ==
    IF k > Len(files) \/ st.failed THEN st
    ELSE import_files(import_file(st, files[k], k, remove_dups),
                      files, k + 1, remove_dups)

\* Lines 959-976: nothing imported yet.
SequenceStart(g) ==
    [cs |-> g, kept |-> {}, dups |-> {}, first |-> NoLayer, prev |-> NoSurface,
     count |-> 0, wps |-> <<>>, desc |-> "", errs |-> 0, skipped |-> 0,
     failed |-> FALSE]

\* The catch block of lines 1082-1086 with no group.cancel().
import_sequence_failed_uncancelled(cs, st) ==
    [cs |-> ui_error(cs), ret |-> FALSE, st |-> st, switch |-> NoLayer]

\* Lines 1082-1086: the catch block of the whole sequence.
import_sequence_failed(cs, st) ==
    [cs |-> group_cancel(ui_error(cs)), ret |-> FALSE, st |-> st, switch |-> NoLayer]

\* Lines 1079-1091.
import_sequence_connected(st, layer_switch, r) ==
    IF ~r.ok THEN import_sequence_failed(r.cs, st)
    ELSE [cs |-> r.cs, ret |-> TRUE, st |-> st, switch |-> layer_switch]

\* Lines 1065-1081: the animated layer name is connected to the switch.
import_sequence_connect(st, layer_switch, r, env) ==
    IF ~r.ok THEN import_sequence_failed(r.cs, st)
    ELSE IF st.first = NoLayer
    THEN [cs |-> r.cs, ret |-> TRUE, st |-> st, switch |-> NoLayer]
    ELSE IF env.connect = "unknown" THEN import_sequence_failed(ui_error(r.cs), st)
    ELSE import_sequence_connected(
            st, layer_switch,
            ready_and_perform(
                r.cs,
                LayerParamConnect(r.cs, "own", layer_switch, "layer_name", st.wps),
                env.connect))

\* Lines 1059-1063: the layers equal to their predecessor are removed.
import_sequence_remove(st, layer_switch, r, remove_dups, env) ==
    IF ~r.ok THEN import_sequence_failed(r.cs, st)
    ELSE import_sequence_connect(
            st, layer_switch,
            IF remove_dups /\ action_is_ready(LayerRemove(r.cs, "own", st.dups))
            THEN site_performed(
                    perform_action(r.cs, LayerRemove(r.cs, "own", st.dups), env.d_action))
            ELSE r,
            env)

\* Lines 1053-1058: the layers kept go into one switch.
import_sequence_encapsulate(st, act, remove_dups, env) ==
    import_sequence_remove(st, act.made,
                           ready_and_perform(st.cs, act, env.action),
                           remove_dups, env)

\* Lines 1051-1054: after the loop.
import_sequence_loaded(st, remove_dups, env) ==
    IF st.failed THEN [cs |-> st.cs, ret |-> FALSE, st |-> st, switch |-> NoLayer]
    ELSE IF st.count = 0 THEN import_sequence_failed(ui_error(st.cs), st)
    ELSE import_sequence_encapsulate(
            st, LayerEncapsulateSwitch(st.cs, "own", st.kept, st.desc),
            remove_dups, env)

\* Lines 962-1086: the try block of import_sequence.
import_sequence_try(g, files, remove_dups, env) ==
    IF env.action = "unknown"
    THEN import_sequence_failed(ui_error(g), SequenceStart(g))
    ELSE import_sequence_loaded(import_files(SequenceStart(g), files, 1, remove_dups),
                                remove_dups, env)

\* Lines 946-1092, import_sequence.
import_sequence(cs0, files, remove_dups, env) ==
    group_closed(
        import_sequence_try(group_open(cs0, "Import sequence"), files, remove_dups, env))

\* ---- the calls of the entry points.
\* Files an import_sequence call is given at most.
MaxFiles == 3

\* etl::handle: a layer object lives as long as the document or the undo
\* log refers to it.
UndoLayers(log) ==
    UNION {UNION {a.want \cup {a.made} : a \in SeqRange(e.actions)} : e \in SeqRange(log)}

Release(cs) ==
    [cs EXCEPT !.layers =
        [l \in LayerIds |->
            IF l \in DocLayers(cs.doc) \cup UndoLayers(cs.undo)
            THEN cs.layers[l] ELSE FreeLayer]]

\* The state an entry point starts from: no group open, nothing reported yet.
Entry ==
    [layers |-> layers, doc |-> doc, undo |-> undo_stack, groups |-> <<>>,
     errors |-> 0, performed |-> 0, submitted |-> 0, unchecked |-> 0,
     unready |-> 0, hops |-> 0, by |-> {}, log |-> <<>>]

Snapshot == [doc |-> doc, objs |-> layers, undo |-> undo_stack]

\* The group `name` was cancelled during the call.
Cancelled(cs, name) == [name |-> name, how |-> "cancelled"] \in SeqRange(cs.log)

\* What the collaborators of import may answer, by branch.
DefaultEnv ==
    [create1 |-> TRUE, add1 |-> "ok", create2 |-> TRUE, add2 |-> "ok",
     param1 |-> TRUE, param2 |-> TRUE, extra |-> TRUE, extra2 |-> TRUE,
     action |-> "ok"]

ImportEnvs(ext) ==
    CASE ext \in {"pgo", "tsv", "xml"} ->
            {[DefaultEnv EXCEPT !.create1 = c1, !.add1 = a1, !.extra = x,
                                !.create2 = c2, !.add2 = a2] :
                c1 \in BOOLEAN, a1 \in Outcomes, x \in BOOLEAN,
                c2 \in BOOLEAN, a2 \in Outcomes}
      [] ext \in {"wav", "ogg", "mp3"} ->
            {[DefaultEnv EXCEPT !.create1 = c1, !.add1 = a1] :
                c1 \in BOOLEAN, a1 \in Outcomes}
      [] ext = "svg" ->
            {[DefaultEnv EXCEPT !.create1 = c1, !.add1 = a1, !.create2 = c2,
                                !.add2 = a2, !.action = a] :
                c1 \in BOOLEAN, a1 \in Outcomes, c2 \in BOOLEAN,
                a2 \in Outcomes, a \in SiteOutcomes}
      [] ext \in {"sif", "sifz"} ->
            {[DefaultEnv EXCEPT !.extra = x, !.extra2 = y, !.create1 = c1,
                                !.add1 = a1, !.param1 = p1, !.param2 = p2] :
                x \in BOOLEAN, y \in BOOLEAN, c1 \in BOOLEAN, a1 \in Outcomes,
                p1 \in BOOLEAN, p2 \in BOOLEAN}
      [] ext \in Importer_book ->
            {[DefaultEnv EXCEPT !.create1 = c1, !.add1 = a1, !.param1 = p1,
                                !.param2 = p2, !.action = a] :
                c1 \in BOOLEAN, a1 \in Outcomes, p1 \in BOOLEAN,
                p2 \in BOOLEAN, a \in SiteOutcomes}
      [] OTHER -> {DefaultEnv}

Extensions ==
    {"", "pgo", "wav", "WAV", "ogg", "Mp3", "svg", "sif", "png", "PNG", "xyz"}

\* The files of a sequence: without extension, of no known type, or images
\* whose import gets as far as their fate says.
FileKinds ==
    {[ext |-> e, fate |-> "ok", surface |-> "s1"] : e \in {"", "xyz", "PNG"}}
        \cup {[ext |-> "png", fate |-> f, surface |-> "s1"] : f \in Fates \ {"ok"}}
        \cup {[ext |-> "png", fate |-> "ok", surface |-> x] : x \in Surfaces}

\* The file kinds whose import succeeds or is passed over.
GoodKinds == {f \in FileKinds : f.fate = "ok"}

\* The sets of file names: the loop is left at the first file whose catch
\* block returns and the files after it are not looked at, so the files
\* before the last one are those the loop gets past.
FileSeqs ==
    UNION {{fs \in [1 .. n -> FileKinds] :
                \A k \in 1 .. n - 1 : fs[k] \in GoodKinds} : n \in 0 .. MaxFiles}

\* What the three actions of import_sequence may answer: all succeed, or
\* one of them is missing, not ready or fails.
SequenceEnvs ==
    {[action |-> a, d_action |-> "ok", connect |-> "ok"] : a \in SiteOutcomes}
        \cup {[action |-> "ok", d_action |-> "failed", connect |-> "ok"]}
        \cup {[action |-> "ok", d_action |-> "ok", connect |-> c] : c \in SiteOutcomes}

TxnOnly == UNCHANGED <<timeVars, walkVars, listVars>>

\* The call has returned or thrown: the document, layers and undo log are
\* what it left, and `last` tells what it did.
CallReturned(cs, rec) ==
    /\ layers' = Release(cs).layers
    /\ doc' = cs.doc
    /\ undo_stack' = cs.undo
    /\ last' = [NoOp EXCEPT
                  !.op = rec.op, !.ret = rec.ret, !.ok = rec.ok, !.exc = rec.exc,
                  !.cancelled = rec.cancelled, !.performed = cs.performed,
                  !.errors = cs.errors, !.skipped = rec.skipped,
                  !.file_failed = rec.file_failed, !.log = cs.log,
                  !.arg = rec.arg, !.submitted = cs.submitted,
                  !.unchecked = cs.unchecked, !.unready = cs.unready,
                  !.hops = cs.hops, !.by = cs.by,
                  !.pre = Snapshot]

\* A call of add_layer_to.
AddLayerTo ==
    /\ TxnOnly
    /\ last.op = "none"
    /\ FreeLayers(layers) # {}
    /\ \E id \in {"circle"}, canvas \in {"own", "inl", "other"},
          depth \in {0, 1}, created \in BOOLEAN, add \in Outcomes, move \in Outcomes :
          LET r == add_layer_to(Entry, id, canvas, depth, created, add, move)
          IN  CallReturned(r.cs, [op |-> "add_layer_to", ret |-> r.ret,
                               ok |-> r.ret # NoLayer, exc |-> "none",
                               cancelled |-> Cancelled(r.cs, "Add Layer To"),
                               skipped |-> 0, file_failed |-> FALSE,
                               arg |-> NoArg])

\* A call of import.
Import ==
    /\ TxnOnly
    /\ last.op = "none"
    /\ Cardinality(FreeLayers(layers)) >= 2
    /\ \E e \in Extensions :
          \E env \in ImportEnvs(strtolower(e)) :
              LET r == import(Entry, [base |-> "a", ext |-> e], env)
              IN  CallReturned(r.cs, [op |-> "import", ret |-> r.ret,
                                   ok |-> r.ret # NoLayer, exc |-> r.exc,
                                   cancelled |-> Cancelled(r.cs, "Import"),
                                   skipped |-> 0, file_failed |-> FALSE,
                                   arg |-> [NoArg EXCEPT
                                              !.key = e,
                                              !.value = FileName([base |-> "a", ext |-> e]),
                                              !.given = env.create1,
                                              !.outcome = env.add1]])

\* A call of import_sequence.
ImportSequence ==
    /\ TxnOnly
    /\ last.op = "none"
    /\ \E files \in FileSeqs, remove_dups \in BOOLEAN, env \in SequenceEnvs :
          /\ Cardinality(FreeLayers(layers)) >= Len(files) + 1
          /\ LET r == import_sequence(Entry, files, remove_dups, env)
             IN  CallReturned(r.cs, [op |-> "import_sequence", ret |-> NoLayer,
                                  ok |-> r.ret, exc |-> "none",
                                  cancelled |-> Cancelled(r.cs, "Import sequence"),
                                  skipped |-> r.st.skipped,
                                  file_failed |-> r.st.failed,
                                  arg |-> [NoArg EXCEPT !.seq =
                                             [files |-> files,
                                              remove_dups |-> remove_dups,
                                              kept |-> r.st.kept,
                                              dups |-> r.st.dups,
                                              wps |-> r.st.wps,
                                              switch |-> r.switch]]])

\* What a call that performs one action tells.
OneAction(op, cs, ok, arg) ==
    CallReturned(cs, [op |-> op, ret |-> NoLayer, ok |-> ok, exc |-> "none",
                      cancelled |-> FALSE, skipped |-> 0, file_failed |-> FALSE,
                      arg |-> arg])

\* The values the calls give: none, and one.
Values == {"", "v"}

\* A call of set_mode.
SetMode ==
    /\ TxnOnly
    /\ last.op = "none"
    /\ \E x \in Values, outcome \in Outcomes :
          LET r == set_mode(Entry, x, outcome)
          IN  OneAction("set_mode", r.cs, r.ok,
                        [NoArg EXCEPT !.key = "mode", !.value = x, !.outcome = outcome])

\* A call of layer_create.
LayerCreate ==
    /\ TxnOnly
    /\ last.op = "none"
    /\ FreeLayers(layers) # {}
    /\ \E id \in {"circle", "duplicate", "group"}, canvas \in {"own", "inl", "other"},
          created \in BOOLEAN, exported \in SiteOutcomes :
          LET r == layer_create_exporting(Entry, id, canvas, created, exported)
          IN  /\ layers' = r.cs.layers
              /\ doc' = r.cs.doc
              /\ undo_stack' = r.cs.undo
              /\ last' = [NoOp EXCEPT
                            !.op = "layer_create", !.ret = r.ret,
                            !.ok = r.ret # NoLayer,
                            !.performed = r.cs.performed, !.errors = r.cs.errors,
                            !.submitted = r.cs.submitted,
                            !.unchecked = r.cs.unchecked, !.unready = r.cs.unready,
                            !.by = r.cs.by,
                            !.arg = [NoArg EXCEPT !.key = id, !.target = canvas,
                                                  !.given = created,
                                                  !.outcome = exported],
                            !.pre = Snapshot]

\* A call of layer_add_action, with no layer or with a layer just created.
LayerAddAction ==
    /\ TxnOnly
    /\ last.op = "none"
    /\ FreeLayers(layers) # {}
    /\ \E given \in BOOLEAN, outcome \in Outcomes :
          LET l == layer_create(Entry, "circle", "own", given)
              r == layer_add_action(l.cs, l.ret, outcome)
          IN  OneAction("layer_add_action", r.cs, r.ok,
                        [NoArg EXCEPT !.given = given, !.outcome = outcome])

\* A call of layer_move_action, with no layer or with a layer of the canvas.
LayerMoveAction ==
    /\ TxnOnly
    /\ last.op = "none"
    /\ \E layer \in {NoLayer} \cup SeqRange(doc.layers["own"]), depth \in {0, 1},
          outcome \in Outcomes :
          LET r == layer_move_action(Entry, layer, depth, outcome)
          IN  OneAction("layer_move_action", r.cs, r.ok,
                        [NoArg EXCEPT !.given = layer # NoLayer, !.outcome = outcome])

\* A call of convert.
Convert ==
    /\ TxnOnly
    /\ last.op = "none"
    /\ \E type \in Values \ {""}, outcome \in SiteOutcomes :
          LET r == convert(Entry, "converted", type, outcome)
          IN  OneAction("convert", r.cs, r.ok,
                        [NoArg EXCEPT !.key = "converted", !.value = type,
                                      !.given = TRUE, !.outcome = outcome])

\* A call of add_value_node.
AddValueNode ==
    /\ TxnOnly
    /\ last.op = "none"
    /\ \E name \in Values, outcome \in SiteOutcomes :
          LET r == add_value_node(Entry, "exported", name, outcome)
          IN  OneAction("add_value_node", r.cs, r.ok,
                        [NoArg EXCEPT !.key = "exported", !.value = name,
                                      !.given = name # "", !.outcome = outcome])

\* A call of set_rend_desc.
SetRendDesc ==
    /\ TxnOnly
    /\ last.op = "none"
    /\ \E x \in Values, outcome \in SiteOutcomes :
          LET r == set_rend_desc(Entry, x, outcome)
          IN  OneAction("set_rend_desc", r.cs, r.ok,
                        [NoArg EXCEPT !.key = "rend_desc", !.value = x,
                                      !.outcome = outcome])

\* A call of set_name.
SetName ==
    /\ TxnOnly
    /\ last.op = "none"
    /\ \E x \in Values, outcome \in SiteOutcomes :
          LET r == set_name(Entry, x, outcome)
          IN  OneAction("set_name", r.cs, r.ok,
                        [NoArg EXCEPT !.key = "name", !.value = x, !.outcome = outcome])

\* A call of CanvasInterface::set_description.
SetDescription ==
    /\ TxnOnly
    /\ last.op = "none"
    /\ \E x \in Values, outcome \in SiteOutcomes :
          LET r == canvas_set_description(Entry, x, outcome)
          IN  OneAction("set_description", r.cs, r.ok,
                        [NoArg EXCEPT !.key = "description", !.value = x,
                                      !.outcome = outcome])

\* A call of set_id.
SetId ==
    /\ TxnOnly
    /\ last.op = "none"
    /\ \E x \in Values, outcome \in SiteOutcomes :
          LET r == set_id(Entry, x, outcome)
          IN  OneAction("set_id", r.cs, r.ok,
                        [NoArg EXCEPT !.key = "id", !.value = x, !.outcome = outcome])

\* A call of waypoint_set_value_node.
WaypointSetValueNode ==
    /\ TxnOnly
    /\ last.op = "none"
    /\ \E w \in Values \ {""}, outcome \in SiteOutcomes :
          LET r == waypoint_set_value_node(Entry, w, outcome)
          IN  OneAction("waypoint_set_value_node", r.cs, r.ok,
                        [NoArg EXCEPT !.key = "waypoint", !.value = w,
                                      !.outcome = outcome])

\* A call of waypoint_move.
WaypointMove ==
    /\ TxnOnly
    /\ last.op = "none"
    /\ \E w \in Values \ {""}, outcome \in SiteOutcomes :
          LET r == waypoint_move(Entry, w, outcome)
          IN  OneAction("waypoint_move", r.cs, r.ok,
                        [NoArg EXCEPT !.key = "waypoint", !.value = w,
                                      !.outcome = outcome])

\* A call of waypoint_duplicate.
WaypointDuplicate ==
    /\ TxnOnly
    /\ last.op = "none"
    /\ \E w \in Values \ {""}, outcome \in SiteOutcomes :
          LET r == waypoint_duplicate(Entry, w, outcome)
          IN  OneAction("waypoint_duplicate", r.cs, r.ok,
                        [NoArg EXCEPT !.key = "waypoint", !.value = w,
                                      !.outcome = outcome])

\* A call of waypoint_remove.
WaypointRemove ==
    /\ TxnOnly
    /\ last.op = "none"
    /\ \E outcome \in SiteOutcomes :
          LET r == waypoint_remove(Entry, outcome)
          IN  OneAction("waypoint_remove", r.cs, r.ok,
                        [NoArg EXCEPT !.key = "waypoint", !.outcome = outcome])

\* The value descriptors the calls give: of a canvas of the tree of R, of
\* the tree of X, and of no canvas.
ValueDescs == {[canvas |-> c] : c \in {"A", "X", NoCanvas}}

\* Times a value is changed at.
ChangeTimes == {0}

\* A call of change_value_at_time on the interface of a canvas whose
\* instance is open.
ChangeValueAtTime ==
    /\ TxnOnly
    /\ last.op = "none"
    /\ \E m \in {"B", "X"}, value_desc \in ValueDescs, new_value \in Values,
          time \in ChangeTimes, lock_animation \in BOOLEAN,
          open \in SUBSET {"R", "X"}, action \in SiteOutcomes :
          /\ get_root(get_canvas(m)) \in open
          /\ LET r == change_value_at_time(Entry, m, value_desc, new_value, time,
                                           lock_animation,
                                           [open |-> open, action |-> action])
             IN  OneAction("change_value_at_time", r.cs, r.ok,
                           [NoArg EXCEPT !.m = m, !.target = value_desc.canvas,
                                         !.key = DescKey(value_desc),
                                         !.value = new_value, !.outcome = action,
                                         !.given = lock_animation, !.open = open])

\* A call of set_meta_data.
SetMetaData ==
    /\ TxnOnly
    /\ last.op = "none"
    /\ \E key \in {"guide", "note"}, data \in Values, outcome \in SiteOutcomes :
          OneAction("set_meta_data", set_meta_data(Entry, key, data, outcome), TRUE,
                    [NoArg EXCEPT !.key = key, !.value = data, !.outcome = outcome])

\* A call of erase_meta_data.
EraseMetaData ==
    /\ TxnOnly
    /\ last.op = "none"
    /\ \E key \in {"guide", "note"}, outcome \in SiteOutcomes :
          OneAction("erase_meta_data", erase_meta_data(Entry, key, outcome), TRUE,
                    [NoArg EXCEPT !.key = key, !.outcome = outcome])

\* Calls of add_layer_to that built the document before the call looked at.
MaxPrior == 1

\* The state before any call: no layer, an empty undo log.
Blank ==
    [layers |-> [l \in LayerIds |-> FreeLayer], doc |-> EmptyDoc, undo |-> <<>>,
     groups |-> <<>>, errors |-> 0, performed |-> 0, submitted |-> 0,
     unchecked |-> 0, unready |-> 0, hops |-> 0, by |-> {}, log |-> <<>>]

RECURSIVE Populated(_)
\* The state after k circles were put on the interface's canvas.
Populated(k) ==
    IF k = 0 THEN Blank
    ELSE add_layer_to(Populated(k - 1), "circle", "own", 0, TRUE, "ok", "ok").cs

\* A document built by earlier calls, whose value descriptors address one
\* of the values and whose meta data hold it too, and no call looked at yet.
InitTxn ==
    /\ TimeIdle
    /\ WalkIdle
    /\ ListIdle
    /\ \E k \in 0 .. MaxPrior, v \in Values :
          /\ layers = Populated(k).layers
          /\ doc = [Populated(k).doc EXCEPT
                       !.props = [key \in PropKeys |->
                                    IF key \in {DescKey(d) : d \in ValueDescs}
                                                \cup {"guide", "note"}
                                    THEN v ELSE @[key]]]
          /\ undo_stack = Populated(k).undo
    /\ last = NoOp

NextTxn ==
    \/ AddLayerTo \/ Import \/ ImportSequence
    \/ SetMode \/ LayerCreate \/ LayerAddAction \/ LayerMoveAction
    \/ Convert \/ AddValueNode
    \/ SetRendDesc \/ SetName \/ SetDescription \/ SetId
    \/ WaypointSetValueNode \/ WaypointMove \/ WaypointDuplicate \/ WaypointRemove
    \/ ChangeValueAtTime \/ SetMetaData \/ EraseMetaData

SpecTxn == InitTxn /\ [][NextTxn]_vars

(***************************************************************************)
(* Properties of the entry points that edit the document.                  *)
(***************************************************************************)
\* The call failed as its caller sees it: an error was reported, an
\* exception left the function, or no layer came back.
ImportFailed ==
    /\ last.op = "import"
    /\ (last.errors > 0 \/ last.exc # "none" \/ last.ret = NoLayer)

\* C1: when an entry point cancels the group it opened ("Import" in import,
\* "Import sequence" in import_sequence; add_layer_to never cancels its
\* group), then after the call the canvases, the layers with their fields
\* and the undo log are what they were when the group opened, whatever the
\* number of actions performed inside the group.
C1_CancelRestoresDocument ==
    last.cancelled => Snapshot = last.pre

\* A call on a document that already held a layer performed two actions or
\* more in its group and then cancelled it.
C1_Witness ==
    /\ last.cancelled
    /\ last.performed >= 2
    /\ last.pre.doc.layers["own"] # <<>>

\* C2: a call of import that fails (an error is reported, an exception is
\* thrown or an action is not ready or fails) returns a null layer, lets no
\* exception out and leaves the document as it was before the call.
C2_ImportAllOrNothing ==
    ImportFailed =>
        /\ last.ret = NoLayer
        /\ last.exc = "none"
        /\ Snapshot = last.pre

ReadyCheckedOps == {"layer_add_action", "layer_move_action", "convert", "add_value_node"}

ReportingOps ==
    ReadyCheckedOps \cup {"layer_create", "import", "import_sequence",
                          "change_value_at_time"}

\* C13: in every operation of the interface, an action is passed to
\* perform_action only after is_ready() was called on it and answered true:
\* no call passes on an action it did not ask about, and none passes on an
\* action that is not ready.
C13_SubmittedOnlyWhenReady ==
    last.unchecked = 0 /\ last.unready = 0

\* C14: when the action built by layer_add_action, layer_move_action,
\* convert or add_value_node is not ready, the call reports one error,
\* passes no action to perform_action, leaves canvases, layers and undo log
\* as they were, and returns false without throwing.
C14_NotReadyReportedOnce ==
    (/\ last.op \in ReadyCheckedOps
     /\ last.arg.given
     /\ last.arg.outcome = "not_ready")
        => /\ last.errors = 1
           /\ last.submitted = 0
           /\ last.performed = 0
           /\ Snapshot = last.pre
           /\ ~last.ok
           /\ last.exc = "none"

\* layer_move_action was called for a layer of the canvas, its action was
\* not ready, and one error was reported.
C14_Witness ==
    /\ last.op = "layer_move_action"
    /\ last.arg.given
    /\ last.arg.outcome = "not_ready"
    /\ last.errors = 1
    /\ doc.layers["own"] # <<>>

\* C15: whenever layer_create, layer_add_action, layer_move_action,
\* convert, add_value_node, import, import_sequence or change_value_at_time
\* returns false or no layer, it has reported exactly one error.
C15_FailureReportedOnce ==
    (last.op \in ReportingOps /\ last.exc = "none" /\ ~last.ok)
        => last.errors = 1

\* C16: whenever add_layer_to or import returns a layer, or
\* layer_add_action, layer_move_action, convert, add_value_node,
\* change_value_at_time or import_sequence returns true, no error was
\* reported during the call, the calls it makes included.
C16_SuccessReportsNothing ==
    (/\ last.op \in (ReportingOps \ {"layer_create"}) \cup {"add_layer_to"}
     /\ last.exc = "none"
     /\ last.ok)
        => last.errors = 0

\* C17: no call of import or import_sequence ends with an exception: the
\* caller gets a layer, no layer, true or false.
C17_NoExceptionEscapes ==
    last.op \in {"import", "import_sequence"} => last.exc = "none"

\* C18: layer_create for a canvas that is neither the interface's own nor
\* inline returns no layer, performs no action, exports no value node and
\* leaves canvases, layers and undo log as they were; for the interface's
\* own canvas or an inline one, a layer that Layer::create made is returned.
C18_BadCanvasRefused ==
    last.op = "layer_create" =>
        /\ last.arg.target \notin {"own", "inl"} =>
              /\ last.ret = NoLayer
              /\ last.submitted = 0
              /\ last.performed = 0
              /\ Snapshot = last.pre
        /\ (last.arg.target \in {"own", "inl"} /\ last.arg.given) =>
              /\ last.ret # NoLayer
              /\ layers[last.ret].home = last.arg.target

\* layer_create was called for a duplicate layer on a canvas of another
\* interface: Layer::create made the layer, and no layer came back.
C18_Witness ==
    /\ last.op = "layer_create"
    /\ last.arg.target = "other"
    /\ last.arg.key = "duplicate"
    /\ last.arg.given
    /\ last.ret = NoLayer

\* The call of change_value_at_time gave the value the descriptor had.
SameValueGiven ==
    /\ last.op = "change_value_at_time"
    /\ last.arg.value = last.pre.doc.props[last.arg.key]

\* The descriptor of the call is of a tree other than the interface's.
OtherTree ==
    /\ last.op = "change_value_at_time"
    /\ last.arg.target # NoCanvas
    /\ ~SameTree(last.arg.target, last.arg.m)

\* C19: change_value_at_time with the value the descriptor already has at
\* the time passes no action to perform_action (it builds none), goes to no
\* other interface, reports nothing, leaves canvases, layers and undo log as
\* they were, and returns true.
C19_SameValueNoOp ==
    SameValueGiven =>
        /\ last.submitted = 0
        /\ last.hops = 0
        /\ last.errors = 0
        /\ Snapshot = last.pre
        /\ last.ok

\* The value given was the one a descriptor of another, open tree had,
\* and it was not the empty value.
C19_Witness ==
    /\ SameValueGiven
    /\ OtherTree
    /\ last.arg.value = "v"
    /\ get_root(last.arg.target) \in last.arg.open
    /\ last.ok

\* C20: for a descriptor of another tree and a value it does not have,
\* change_value_at_time passes no action of its own to perform_action: with
\* an instance open for that tree the call goes, once, to the interface of
\* the descriptor's canvas, whose action is the only one and whose result
\* is returned; with none open, one error is reported, false is returned
\* and canvases, layers and undo log are as they were.
C20_ForwardedOnce ==
    (OtherTree /\ ~SameValueGiven) =>
        IF get_root(last.arg.target) \in last.arg.open
        THEN /\ last.hops = 1
             /\ last.by \subseteq {get_canvas(find_canvas_interface(last.arg.target))}
             /\ last.ok = (last.performed = 1)
             /\ last.errors = 0
        ELSE /\ last.hops = 0
             /\ last.submitted = 0
             /\ last.errors = 1
             /\ ~last.ok
             /\ Snapshot = last.pre

\* The interface of B was given a descriptor of X while the instance of X
\* was open: the interface of X performed the action.
C20_Witness ==
    /\ OtherTree
    /\ last.arg.m = "B"
    /\ last.arg.target = "X"
    /\ "X" \in last.arg.open
    /\ last.hops = 1
    /\ last.by = {"X"}
    /\ last.performed = 1
    /\ doc.props["value@X"] = last.arg.value
    /\ doc.props["value@X"] # last.pre.doc.props["value@X"]

\* What the last call of import_sequence was given and what it kept.
LastSeq == last.arg.seq

\* import_sequence returned true.
SequenceImported == last.op = "import_sequence" /\ last.ok

\* The files of the call that have an importer: the frames.
Frames ==
    {k \in 1 .. Len(LastSeq.files) : strtolower(LastSeq.files[k].ext) \in Importer_book}

FrameName(k) == FileName(SequencePath(LastSeq.files[k], k))

\* The layer made for the frame k.
FrameLayer(k) == CHOOSE l \in LayerIds : layers[l].filename = FrameName(k)

\* The frame k renders as the frame before it does.
SameAsPrevious(k) ==
    \E j \in Frames :
        /\ j < k
        /\ \A i \in Frames : ~(j < i /\ i < k)
        /\ LastSeq.files[j].surface = LastSeq.files[k].surface

\* The waypoints the animated layer name connected to the switch holds.
ConnectedWaypoints ==
    IF \E c \in doc.conn : c.layer = LastSeq.switch /\ c.param = "layer_name"
    THEN (CHOOSE c \in doc.conn : c.layer = LastSeq.switch /\ c.param = "layer_name").wps
    ELSE <<>>

WaypointsOf(k) ==
    {n \in 1 .. Len(ConnectedWaypoints) : ConnectedWaypoints[n].desc = FrameName(k)}

InSwitch(l) == <<LastSeq.switch, l>> \in doc.inside

\* C21: after import_sequence with duplicates removed, the waypoints of the
\* frames kept are at the times 0, 1/fps, 2/fps, ... with no time left out
\* (with three frames of which the second equals the first: at 0 and
\* 1/fps), each with constant interpolation before and after.
C21_WaypointTimesHaveNoGap ==
    (SequenceImported /\ LastSeq.remove_dups) =>
        \A n \in 1 .. Len(ConnectedWaypoints) :
            /\ ConnectedWaypoints[n].index = n - 1
            /\ ConnectedWaypoints[n].before = "constant"
            /\ ConnectedWaypoints[n].after = "constant"

\* C22: after a successful import_sequence with remove_dups, a frame that
\* renders as the frame before it has no waypoint, is not in the switch and
\* its layer is on no canvas, every other frame has one waypoint and is in
\* the switch, and there are as many waypoints as layers in the switch;
\* without remove_dups no frame is found equal to another or removed, and
\* every frame is in the switch with one waypoint.
C22_DuplicatesDropped ==
    SequenceImported =>
        /\ \A k \in Frames :
              IF LastSeq.remove_dups /\ SameAsPrevious(k)
              THEN /\ WaypointsOf(k) = {}
                   /\ ~InSwitch(FrameLayer(k))
                   /\ FrameLayer(k) \notin DocLayers(doc)
              ELSE /\ Cardinality(WaypointsOf(k)) = 1
                   /\ InSwitch(FrameLayer(k))
        /\ Len(ConnectedWaypoints) = Cardinality({l \in LayerIds : InSwitch(l)})
        /\ ConnectedWaypoints = LastSeq.wps
        /\ ~LastSeq.remove_dups => LastSeq.dups = {}

\* Three frames were imported with remove_dups, one of them rendered as the
\* frame before it and was removed, and the two others are in the switch.
C22_Witness ==
    /\ SequenceImported
    /\ LastSeq.remove_dups
    /\ Cardinality(Frames) = 3
    /\ \E k \in Frames : SameAsPrevious(k) /\ FrameLayer(k) \notin DocLayers(doc)
    /\ Cardinality({l \in LayerIds : InSwitch(l)}) = 2
    /\ Len(ConnectedWaypoints) = 2

\* import was called for an audio file, in whatever letter case.
AudioImport ==
    /\ last.op = "import"
    /\ strtolower(last.arg.key) \in {"wav", "ogg", "mp3"}

\* The undo log has one entry more than before the call.
OneMoreEntry == Len(undo_stack) = Len(last.pre.undo) + 1

NewestEntry == undo_stack[Len(undo_stack)]

\* C23: import of a file with extension wav, ogg or mp3 in any letter case,
\* when the sound layer is created and added, returns that layer: it is the
\* one layer new on the canvas, of kind sound, described with the file's
\* name, added by the one action performed, which is the only action of the
\* one entry the committed group "Import" leaves in the undo log; no switch
\* layer and no connection of an animated value is made.
C23_AudioImportAddsOneLayer ==
    (AudioImport /\ last.exc = "none") =>
        /\ last.ret # NoLayer
        /\ layers[last.ret].kind = "sound"
        /\ layers[last.ret].desc = last.arg.value
        /\ doc.layers["own"] = <<last.ret>> \o last.pre.doc.layers["own"]
        /\ {l \in LayerIds : layers[l] # last.pre.objs[l]} = {last.ret}
        /\ last.performed = 1
        /\ ~last.cancelled
        /\ [name |-> "Import", how |-> "committed"] \in SeqRange(last.log)
        /\ OneMoreEntry
        /\ NewestEntry.name = "Import"
        /\ Len(NewestEntry.actions) = 1
        /\ NewestEntry.actions[1].type = "LayerAdd"
        /\ NewestEntry.actions[1].want = {last.ret}
        /\ doc.conn = last.pre.doc.conn
        /\ doc.inside = last.pre.doc.inside
        /\ last.errors = 0

\* A file "a.Mp3" was imported on a canvas that held a layer already.
C23_Witness ==
    /\ AudioImport
    /\ last.arg.key = "Mp3"
    /\ last.ret # NoLayer
    /\ layers[last.ret].desc = "a.Mp3"
    /\ Len(doc.layers["own"]) = 2

MetaDataCall == last.op \in {"set_meta_data", "erase_meta_data"}

\* What the call asked the key to hold.
MetaDataAsked == IF last.op = "set_meta_data" THEN last.arg.value ELSE ""

\* The canvas holds what it held before the call, the key aside.
OtherKeysKept ==
    /\ \A k \in PropKeys \ {last.arg.key} : doc.props[k] = last.pre.doc.props[k]
    /\ doc.layers = last.pre.doc.layers
    /\ layers = last.pre.objs

\* C24: set_meta_data and erase_meta_data change what the key "guide" holds
\* only by an action that is then the one new entry of the undo log, never
\* on the canvas itself; any other key is set or erased on the canvas
\* itself, with no action passed to perform_action and the undo log and the
\* groups as they were.
C24_GuideThroughAction ==
    MetaDataCall =>
        /\ OtherKeysKept
        /\ IF last.arg.key = "guide"
           THEN /\ last.performed = 0 => Snapshot = last.pre
                /\ last.performed > 0 =>
                      /\ last.performed = 1
                      /\ OneMoreEntry
                      /\ NewestEntry.actions[1].type
                            = (IF last.op = "set_meta_data"
                               THEN "CanvasMetadataSet" ELSE "CanvasMetadataErase")
                      /\ NewestEntry.actions[1].key = "guide"
                      /\ doc.props["guide"] = MetaDataAsked
           ELSE /\ last.submitted = 0
                /\ undo_stack = last.pre.undo
                /\ last.log = <<>>
                /\ doc.props[last.arg.key] = MetaDataAsked

\* set_meta_data gave the guide a new value by an action.
C24_Witness ==
    /\ last.op = "set_meta_data"
    /\ last.arg.key = "guide"
    /\ last.arg.value = "v"
    /\ doc.props["guide"] = "v"
    /\ last.performed = 1

\* The group the entry point opens first.
OuterGroup == IF last.op = "import" THEN "Import" ELSE "Import sequence"

\* A group opened inside it was committed during the call.
InnerCommitted ==
    \E n \in {"Add Layer To", "Import Lipsync"} :
        [name |-> n, how |-> "committed"] \in SeqRange(last.log)

OuterCommitted == [name |-> OuterGroup, how |-> "committed"] \in SeqRange(last.log)

OuterCancelled == [name |-> OuterGroup, how |-> "cancelled"] \in SeqRange(last.log)

\* C25: the actions of a group committed inside import or import_sequence
\* ("Add Layer To", "Import Lipsync") belong to the group around it
\* ("Import", "Import sequence"): when that one commits, the undo log gets
\* one entry under its name holding every action performed in the call,
\* those of the inner groups included; when it is cancelled, as it is
\* whenever import_sequence fails, the actions the inner groups committed
\* are undone with it, and canvases, layers and undo log are as before.
C25_InnerGroupsJoinOuter ==
    (last.op \in {"import", "import_sequence"} /\ InnerCommitted) =>
        /\ OuterCommitted =>
              /\ OneMoreEntry
              /\ NewestEntry.name = OuterGroup
              /\ Len(NewestEntry.actions) = last.performed
              /\ \E k \in 1 .. Len(NewestEntry.actions) :
                    NewestEntry.actions[k].type = "LayerAdd"
        /\ OuterCancelled => Snapshot = last.pre
        /\ (last.op = "import_sequence" /\ ~last.ok) =>
              (OuterCancelled /\ Snapshot = last.pre)
        /\ ~(OuterCommitted /\ OuterCancelled)

\* import_sequence added two layers in groups of their own, then its
\* switch action failed and the group around them was cancelled.
C25_Witness ==
    /\ last.op = "import_sequence"
    /\ InnerCommitted
    /\ OuterCancelled
    /\ ~last.file_failed
    /\ last.performed >= 2
    /\ last.pre.doc.layers["own"] # <<>>

\* The calls that open a group of their own first.
GroupingCall == last.op \in {"add_layer_to", "import", "import_sequence"}

\* The name of that group.
CallGroup ==
    CASE last.op = "add_layer_to" -> "Add Layer To"
      [] last.op = "import" -> "Import"
      [] OTHER -> "Import sequence"

\* How the group of the call ended: it is the last one to close.
CallGroupEnd == last.log[Len(last.log)]

\* import was given a raster file and add_layer_to gave it no layer, which
\* takes it to its catch block.
RasterImportThrew ==
    /\ last.op = "import"
    /\ strtolower(last.arg.key) \in Importer_book
    /\ ~last.arg.given

ForwardedAndPerformed ==
    /\ OtherTree
    /\ last.hops = 1
    /\ last.performed = 1
    /\ OneMoreEntry

\* The action that interface performed.
ForwardedAction == NewestEntry.actions[1]

\* C29: a request change_value_at_time sends on to the interface of another
\* tree is performed there with the descriptor, the new value and the time
\* of the call, and with the lock_animation flag of the call.
C29_ForwardedWithSameFlag ==
    ForwardedAndPerformed =>
        /\ ForwardedAction.type = "ValueDescSet"
        /\ ForwardedAction.key = last.arg.key
        /\ ForwardedAction.value = last.arg.value
        /\ ForwardedAction.index \in ChangeTimes
        /\ ForwardedAction.param = IF last.arg.given THEN "lock_animation" ELSE ""

\* The extensions import has a branch of its own for.
NamedExtensions == {"pgo", "tsv", "xml", "wav", "ogg", "mp3", "svg", "sif", "sifz"}

\* import was called for a file with no extension, or with one that has no
\* branch of its own and no importer registered.
UnknownImport ==
    /\ last.op = "import"
    /\ \/ last.arg.key = ""
       \/ strtolower(last.arg.key) \notin NamedExtensions \cup Importer_book

LinkCallsOf(kinds) ==
    {k \in 1 .. Len(wstack) :
        /\ wstack[k].fn = "process"
        /\ wstack[k].desc.t = "link"
        /\ graph.kind[wstack[k].desc.node] \in kinds}

\* Every descriptor collected addresses a dynamic list or an animated node.
OnlyImportantCollected ==
    \A k \in 1 .. Len(out) : graph.kind[OutNodes[k]] \in {"dynamic_list", "animated"}

\* C28 as stated: the walker records a dynamic list and an animated node
\* and goes into the links of neither.
C28_ListLinksNotEntered ==
    /\ OnlyImportantCollected
    /\ LinkCallsOf({"dynamic_list", "animated"}) = {}

\* C28: the walker records nothing but dynamic lists and animated nodes.
\* Below an animated node it makes no call.  A dynamic list is recorded
\* and then treated as any linkable node: each of its links whose node is
\* not exported is classified in turn, so that when the walk has returned
\* every such node got to the identity test and, if it is a dynamic list
\* or an animated node itself, was collected either before the list or as
\* the link of a node.
C28_ListLinksEntered ==
    /\ OnlyImportantCollected
    /\ LinkCallsOf({"animated", "const"}) = {}
    /\ walk = "done" =>
          \A a \in 1 .. Len(out) :
              graph.kind[OutNodes[a]] = "dynamic_list" =>
                  \A i \in 1 .. Len(graph.links[OutNodes[a]]) :
                      LET m == graph.links[OutNodes[a]][i]
                      IN  \/ m = graph.exported
                          \/ m = OutNodes[a]
                          \/ /\ classified[m] >= 1
                             /\ graph.kind[m] \in {"dynamic_list", "animated"} =>
                                   \E b \in 1 .. Len(out) :
                                       /\ OutNodes[b] = m
                                       /\ b < a \/ out[b].t = "link"

\* The walk has returned with the dynamic list 1 and the animated node 2
\* collected, node 2 through the link of the list.
C28_Witness ==
    /\ walk = "done"
    /\ graph.kind[1] = "dynamic_list"
    /\ graph.links[1] = <<NumNodes>>
    /\ graph.kind[NumNodes] = "animated"
    /\ graph.exported = 0
    /\ \E k \in 1 .. Len(out) : out[k] = ValueDesc_link(1, 1)
    /\ \E k \in 1 .. Len(out) : OutNodes[k] = 1

(***************************************************************************)
(* Part 4: the nodes layer_set_defaults gives to the list parameters of a  *)
(* new layer (lines 296-403).                                              *)
(***************************************************************************)
\* The longest list a parameter holds.
MaxList == 3

\* The types an element of a list may have; "real" stands for every type
\* the code does not name.
ElemTypes ==
    {"bline_point", "bone_object", "bone_pair", "vector", "width_point",
     "dash_item", "real"}

\* The lists a parameter may hold, each element by its type.
Lists == UNION {[1 .. n -> ElemTypes] : n \in 0 .. MaxList}

\* The environment variables the code asks for.
EnvVars == {"SYNFIG_USE_DYNAMIC_LIST_FOR_BONES", "SYNFIG_USE_STATIC_LIST_FOR_VECTORS"}

\* Every element is taken to have the type of the first, for comparison.
same_type_unchecked(list) == TRUE

\* Lines 313-317: the loop runs to the end of the list when every element
\* has the type of the first.
same_type(list) == \A k \in 2 .. Len(list) : list[k] = list[1]

\* The loops of lines 364-366 and 372-374: every element has type t.
all_of_type(list, t) == \A k \in 1 .. Len(list) : list[k] = t

\* Lines 319-362: the node built for a list whose elements all have `type`,
\* as the sequence of nodes built (none for a type the code does not name).
create_by_type(type, getenv) ==
    CASE type = "bline_point" -> <<"bline">>
      [] type = "bone_object" ->
            IF "SYNFIG_USE_DYNAMIC_LIST_FOR_BONES" \in getenv
            THEN <<"dynamic_list">> ELSE <<"static_list">>
      [] type = "bone_pair" ->
            IF "SYNFIG_USE_DYNAMIC_LIST_FOR_BONES" \in getenv
            THEN <<"dynamic_list">> ELSE <<"static_list">>
      [] type = "vector" ->
            IF "SYNFIG_USE_STATIC_LIST_FOR_VECTORS" \in getenv
            THEN <<"static_list">> ELSE <<"dynamic_list">>
      [] OTHER -> <<>>

\* Lines 310-376: the nodes built for a list that is not empty, in the
\* order they are built; each one replaces the one before it.
create_for_elements(list, getenv) ==
    (IF same_type(list) THEN create_by_type(list[1], getenv) ELSE <<>>)
    \o (IF all_of_type(list, "width_point") THEN <<"wplist">> ELSE <<>>)
    \o (IF all_of_type(list, "dash_item") THEN <<"dilist">> ELSE <<>>)

\* Lines 306-385: the nodes built for a list parameter; the plain dynamic
\* list is built when nothing was built before (lines 383-385).
create_for_list(list, getenv) ==
    LET built == IF list # <<>> THEN create_for_elements(list, getenv) ELSE <<>>
    IN  IF built = <<>> THEN <<"dynamic_list">> ELSE built

\* Lines 299-403 for one list parameter: value_node is the node built last
\* and the parameter is connected to it (lines 400-401).
list_param_defaults(list, getenv) ==
    LET created == create_for_list(list, getenv)
    IN  [getenv |-> getenv, list |-> list, created |-> created,
         node |-> created[Len(created)], connected |-> TRUE]

\* The turn of the loop over the parameters of the layer that finds the
\* list parameter.
SetListDefaults ==
    /\ ~list_param.connected
    /\ list_param' = list_param_defaults(list_param.list, list_param.getenv)
    /\ UNCHANGED <<timeVars, walkVars, txnVars>>

\* The process runs with some of the environment variables set, and the
\* new layer has a list parameter nothing is connected to yet.
InitList ==
    /\ TimeIdle
    /\ WalkIdle
    /\ TxnIdle
    /\ \E getenv \in SUBSET EnvVars, list \in Lists :
          list_param = [NoParam EXCEPT !.getenv = getenv, !.list = list]

NextList == SetListDefaults

SpecList == InitList /\ [][NextList]_vars

ListOf(types) ==
    /\ list_param.list # <<>>
    /\ \E t \in types : \A k \in 1 .. Len(list_param.list) : list_param.list[k] = t

time_start == [c \in Canvases |-> 0]

time_end == [c \in Canvases |-> IF c = "A" THEN 1 ELSE MaxTime]

\* Time::end() and Time::begin(): times beyond every time of a document.
Time_end == 1000

Time_begin == -Time_end

\* Canvas::keyframe_list(): the times of the keyframes of each canvas.
keyframe_list ==
    [c \in Canvases |->
        CASE c = "R" -> {0, MaxTime}
          [] c = "G" -> {1}
          [] OTHER   -> {}]

\* KeyframeList::find_next(time, iter) and find_prev(time, iter): the
\* keyframes the iterator may be left at, none when the answer is false.
find_next(c, t) ==
    {k \in keyframe_list[c] : k > t /\ \A j \in keyframe_list[c] : j > t => k <= j}

find_prev(c, t) ==
    {k \in keyframe_list[c] : k < t /\ \A j \in keyframe_list[c] : j < t => k >= j}

\* The numbers of frames and the times, in ticks, the seeks are asked for.
SeekFrames == {-1, 0, 1}

SeekTimes == {Time_begin, -1, 0, 1, Time_end}

\* Lines 1399-1402 and 1429-1432: the time is brought inside the render
\* description's time_start and time_end.
seek_clamp(c, newtime) ==
    LET t == IF newtime <= time_start[c] THEN time_start[c] ELSE newtime
    IN  IF t >= time_end[c] THEN time_end[c] ELSE t

\* What the division by a frame rate of zero and Time::round(0) leave in
\* newtime: a time the comparisons of the clamp need not hold for.
seek_without_rate(c) == (time_start[c] - 1) .. (time_end[c] + 1)

\* Lines 1396-1402 of seek_frame: the times set_time may be called with.
seek_frame_newtime(m, frames) ==
    LET c == get_canvas(m)
        fps == frame_rate[c]
    IN  IF fps = 0 THEN seek_without_rate(c)
        ELSE {seek_clamp(c, Time_round(cur_time[m] + (frames * TicksPerSecond) \div fps,
                                       fps))}

\* Lines 1413-1432 of seek_time: the times set_time may be called with.
seek_time_newtime(m, time) ==
    LET c == get_canvas(m)
        fps == frame_rate[c]
    IN  IF time >= Time_end THEN {time_end[c]}
        ELSE IF time <= Time_begin THEN {time_start[c]}
        ELSE IF fps = 0 THEN seek_without_rate(c)
        ELSE {seek_clamp(c, Time_round(cur_time[m] + time, fps))}

\* An entry point of interface m is called from outside: nothing has been
\* counted for the call yet.
CallBegins(m, op, arg, x) ==
    /\ call' = [iface |-> m, x |-> x, op |-> op, arg |-> arg]
    /\ pre' = [cur |-> cur_time, doc |-> canvas_time]
    /\ changed' = [c \in Canvases |-> 0]
    /\ signals' = [c \in Canvases |-> 0]

\* The entry point goes on to set_time(x) on its own interface, or returns
\* without (x is then not looked at).
CallsSetTime(m, calls, x) ==
    /\ stack' = IF calls THEN <<Frame(m, x)>> ELSE <<>>
    /\ asked' = IF calls THEN {m} ELSE {}
    /\ UNCHANGED <<cur_time, canvas_time>>

\* Lines 1391-1405, seek_frame: nothing for zero frames.
SeekFrame ==
    /\ TimeOnly
    /\ stack = <<>>
    /\ \E m \in Canvases, frames \in SeekFrames :
          \E newtime \in IF frames = 0 THEN {cur_time[m]}
                         ELSE seek_frame_newtime(m, frames) :
              /\ CallBegins(m, "seek_frame", frames, newtime)
              /\ CallsSetTime(m, frames # 0, newtime)

\* Lines 1407-1434, seek_time: nothing for the time zero.
SeekTime ==
    /\ TimeOnly
    /\ stack = <<>>
    /\ \E m \in Canvases, time \in SeekTimes :
          \E newtime \in IF time = 0 THEN {cur_time[m]}
                         ELSE seek_time_newtime(m, time) :
              /\ CallBegins(m, "seek_time", time, newtime)
              /\ CallsSetTime(m, time # 0, newtime)

\* Lines 670-683, jump_to_next_keyframe: set_time with the time of the
\* keyframe after the cursor, if there is one.
JumpToNextKeyframe ==
    /\ TimeOnly
    /\ stack = <<>>
    /\ \E m \in Canvases :
          LET found == find_next(get_canvas(m), cur_time[m])
          IN  \E x \in IF found = {} THEN {cur_time[m]} ELSE found :
                  /\ CallBegins(m, "jump_to_next_keyframe", 0, x)
                  /\ CallsSetTime(m, found # {}, x)

\* Lines 685-701, jump_to_prev_keyframe.
JumpToPrevKeyframe ==
    /\ TimeOnly
    /\ stack = <<>>
    /\ \E m \in Canvases :
          LET found == find_prev(get_canvas(m), cur_time[m])
          IN  \E x \in IF found = {} THEN {cur_time[m]} ELSE found :
                  /\ CallBegins(m, "jump_to_prev_keyframe", 0, x)
                  /\ CallsSetTime(m, found # {}, x)

\* Lines 145-151, refresh_current_values: the canvas takes the cursor and
\* signal_time_changed fires (signal_dirty_preview is not kept).
RefreshCurrentValues ==
    /\ TimeOnly
    /\ stack = <<>>
    /\ \E m \in Canvases :
          /\ call' = [iface |-> m, x |-> cur_time[m], op |-> "refresh_current_values",
                      arg |-> 0]
          /\ pre' = [cur |-> cur_time, doc |-> canvas_time]
          /\ canvas_time' = Canvas_set_time(canvas_time, get_canvas(m), cur_time[m])
          /\ changed' = [c \in Canvases |-> 0]
          /\ signals' = [[c \in Canvases |-> 0] EXCEPT ![m] = 1]
          /\ asked' = {}
    /\ UNCHANGED <<cur_time, stack>>

InitSeek == InitTime

NextSeek ==
    \/ SetTimeCall
    \/ SeekFrame
    \/ SeekTime
    \/ JumpToNextKeyframe
    \/ JumpToPrevKeyframe
    \/ RefreshCurrentValues
    \/ SetTimeReturnEqual
    \/ SetTimeAssign
    \/ SetTimeFanOut
    \/ SetTimeSignal

SpecSeek == InitSeek /\ [][NextSeek]_vars

\* C31: when a call of set_time, seek_frame, seek_time,
\* jump_to_next_keyframe, jump_to_prev_keyframe or refresh_current_values on
\* an interface has returned, the time its canvas holds is its cursor.
C31_CursorIsCanvasTime ==
    Returned => canvas_time[get_canvas(call.iface)] = cur_time[call.iface]

\* C32: after seek_frame(n) with n # 0 and after seek_time(d) with d # 0 the
\* cursor is not before time_start and not after time_end of the canvas
\* (asked here of the canvases with a frame rate only); seek_frame(0) and
\* seek_time(0) leave cursor and canvas time as they were and fire no
\* signal.
C32_SeekStaysInRange ==
    (Returned /\ call.op \in {"seek_frame", "seek_time"}) =>
        LET m == call.iface
            c == get_canvas(m)
        IN  IF call.arg # 0
            THEN frame_rate[c] # 0 =>
                    (time_start[c] <= cur_time[m] /\ cur_time[m] <= time_end[c])
            ELSE /\ cur_time = pre.cur
                 /\ canvas_time = pre.doc
                 /\ \A i \in Canvases : signals[i] = 0

(***************************************************************************)
(* Part 6: find_important_value_descs(canvas, out, guid_set) called with a *)
(* vector and an identity set that are not empty.                          *)
(***************************************************************************)
\* What the caller's vector and identity set may hold at the call: nothing;
\* the descriptor and the identity of node 1; two descriptors, in the order
\* opposite to the walker's, and no identity.
Priors ==
    {[out |-> <<>>, guid_set |-> {}],
     [out |-> <<ValueDesc_layer("L1", "p")>>, guid_set |-> {1}],
     [out |-> <<ValueDesc_layer("L1", "q"), ValueDesc_layer("L1", "p")>>,
      guid_set |-> {}]}

\* `earlier` keeps what the vector held at the call.
InitWalkWith ==
    /\ TimeIdle
    /\ TxnIdle
    /\ ListIdle
    /\ graph \in Graphs
    /\ walk = "idle"
    /\ wstack = <<>>
    /\ \E prior \in Priors :
          /\ out = prior.out
          /\ guid_set = prior.guid_set
          /\ earlier = [called |-> FALSE, out |-> prior.out, result |-> 0]
    /\ classified = [n \in Nodes |-> 0]
    /\ result = 0

\* Lines 1347-1382: find_important_value_descs(canvas, out, guid_set) is
\* called for D with the caller's vector and identity set as they are.
WalkCallWith ==
    /\ WalkOnly
    /\ walk = "idle"
    /\ walk' = "running"
    /\ wstack' = <<FindFrame("D")>>
    /\ UNCHANGED <<graph, earlier, out, guid_set, classified, result>>

NextWalkWith ==
    \/ WalkCallWith
    \/ FindExported
    \/ FindExportedDone
    \/ FindLayerParam
    \/ FindLayerCanvas
    \/ FindReturn
    \/ ProcessCanvasValue
    \/ ProcessOtherValue
    \/ ProcessSkip
    \/ ProcessValueNode
    \/ ProcessLink
    \/ ProcessReturn

SpecWalkWith == InitWalkWith /\ [][NextWalkWith]_vars

\* C33: the integer a call of find_important_value_descs returns is the
\* number of descriptors the vector has grown by since the call was made,
\* whatever was classified through links and inline canvases; and no step
\* of the call takes a descriptor out of the vector or moves one (the
\* vector as it was stays the beginning of the vector as it is) or takes an
\* identity out of the set.
C33_CountIsAppended ==
    /\ [](walk = "done" =>
            /\ result = Len(out) - Len(earlier.out)
            /\ SubSeq(out, 1, Len(earlier.out)) = earlier.out)
    /\ [][/\ Len(out') >= Len(out)
          /\ SubSeq(out', 1, Len(out)) = out
          /\ guid_set \subseteq guid_set']_vars

\* A call made with two descriptors in the vector and an identity in no set
\* has returned, having appended two more, one of them for a node reached
\* through a link.
C33_Witness ==
    /\ walk = "done"
    /\ Len(earlier.out) = 2
    /\ result >= 2
    /\ Len(out) = 2 + result
    /\ \E k \in 3 .. Len(out) : out[k].t = "link"

====
